---- MODULE Spec2Model ----
(***************************************************************************)
(* Keystroke-cadence library: the ring buffer (buffer.ts), the event       *)
(* observer (observer.ts) and the facade that schedules score computation  *)
(* (index.ts), as state machines.                                          *)
(*                                                                         *)
(* Time is the value of performance.now() in milliseconds; the clock       *)
(* advances in steps of TickMs.                                            *)
(***************************************************************************)
EXTENDS Integers, Sequences, FiniteSets, TLC

\* ------------------------------------------------------------------ bounds

\* Largest ring-buffer capacity explored by SpecBuffer.
MaxCap == 2
\* Values pushed by SpecBuffer are 1..MaxValue.
MaxValue == 2
\* Pushes since the last clear explored by SpecBuffer.
MaxPushes == 5

\* ------------------------------------------------------------- ring buffer

Min(a, b) == IF a < b THEN a ELSE b

Max(a, b) == IF a > b THEN a ELSE b

\* The last n elements of s (all of s when it is shorter).
LastN(s, n) == SubSeq(s, Len(s) - Min(Len(s), n) + 1, Len(s))

\* createBuffer: a zero-filled Float64Array, head = 0, count = 0.
createBuffer(capacity) ==
  [data |-> [i \in 0..(capacity - 1) |-> 0], head |-> 0, count |-> 0]

\* A push that stops at the end of the store instead of wrapping around.
BufPushNoEvict(b, capacity, value) ==
  IF b.count < capacity
    THEN [data  |-> [b.data EXCEPT ![b.head] = value],
          head  |-> (b.head + 1) % capacity,
          count |-> b.count + 1]
    ELSE b

\* A push whose count goes on past the capacity.
BufPushCountsAll(b, capacity, value) ==
  [data  |-> [b.data EXCEPT ![b.head] = value],
   head  |-> (b.head + 1) % capacity,
   count |-> b.count + 1]

\* push(value): write at head, advance head modulo capacity, count saturates.
BufPush(b, capacity, value) ==
  [data  |-> [b.data EXCEPT ![b.head] = value],
   head  |-> (b.head + 1) % capacity,
   count |-> IF b.count < capacity THEN b.count + 1 ELSE b.count]

\* toArray(): count values starting at 0 (not yet full) or at head (full).
BufToArray(b, capacity) ==
  LET start == IF b.count < capacity THEN 0 ELSE b.head
  IN  [i \in 1..b.count |-> b.data[(start + (i - 1)) % capacity]]

\* forEach(fn): the values fn is called with, in order: count values starting
\* at 0 (not yet full) or at head (full).
BufForEach(b, capacity) ==
  LET start == IF b.count < capacity THEN 0 ELSE b.head
  IN  [i \in 1..b.count |-> b.data[(start + (i - 1)) % capacity]]

\* A clear() that resets count and leaves head where it is.
BufClearCountOnly(b) == [b EXCEPT !.count = 0]

\* clear(): head and count are reset, the store keeps its old contents.
BufClear(b) == [b EXCEPT !.head = 0, !.count = 0]

\* length
BufLength(b) == b.count

\* ----------------------------------------------------------------- bounds

\* Ring-buffer capacity given to the observer (config.windowSize).
WindowSize == 2
\* The clock advances TickMs milliseconds per tick.
TickMs == 50
\* Number of clock ticks explored.
MaxTicks == 3
\* Number of delivered events and of stop, clear and destroy calls explored.
MaxEvents == 4
\* Number of keys held down at the same time.
MaxHeld == 2
\* Cap on the counters of synthetic events and of inputs without keystroke.
MaxCount == 1

\* ---------------------------------------------------------------- observer

\* Max ms between last keydown and an input event to consider it keystroke-driven.
INPUT_WITHOUT_KEYSTROKE_MS == 50

\* The modifier flags of a keyboard event: none, meta, ctrl or alt.
Modifiers ==
  { [metaKey |-> FALSE, ctrlKey |-> FALSE, altKey |-> FALSE],
    [metaKey |-> TRUE,  ctrlKey |-> FALSE, altKey |-> FALSE],
    [metaKey |-> FALSE, ctrlKey |-> TRUE,  altKey |-> FALSE],
    [metaKey |-> FALSE, ctrlKey |-> FALSE, altKey |-> TRUE] }

NoModifier == [metaKey |-> FALSE, ctrlKey |-> FALSE, altKey |-> FALSE]

KeyEvent(k, r, m, tr) ==
  [key |-> k, repeat |-> r, metaKey |-> m.metaKey, ctrlKey |-> m.ctrlKey,
   altKey |-> m.altKey, isTrusted |-> tr]

\* The keydown events the environment can dispatch: every combination of a
\* character or Backspace, repeat and ctrl; the Delete key; each other
\* modifier on its own; and a dispatched (untrusted) character.
KeyEvents ==
  { KeyEvent(k, r, m, TRUE) :
      k \in {"a", "Backspace"}, r \in BOOLEAN,
      m \in {mm \in Modifiers : ~mm.metaKey /\ ~mm.altKey} }
  \cup { KeyEvent("Delete", r, NoModifier, TRUE) : r \in BOOLEAN }
  \cup { KeyEvent("a", FALSE, m, TRUE) : m \in Modifiers }
  \cup { KeyEvent("a", FALSE, NoModifier, FALSE) }

IsCorrectionKey(key) == key = "Backspace" \/ key = "Delete"

HasModifier(ke) == ke.metaKey \/ ke.ctrlKey \/ ke.altKey

\* createObserver: the closure's variables after construction.  attached: how
\* many times the target holds the observer's four handlers, which are added
\* and removed together.
createObserver(cfg) ==
  [ dwells |-> createBuffer(cfg.windowSize),
    flights |-> createBuffer(cfg.windowSize),
    corrections |-> 0,
    rollovers |-> 0,
    total |-> 0,
    pasteDetected |-> FALSE,
    syntheticEvents |-> 0,
    inputWithoutKeystrokes |-> FALSE,
    inputWithoutKeystrokeCount |-> 0,
    lastKeydownTime |-> 0,
    lastPressTime |-> 0,
    lastReleaseTime |-> 0,
    activeKeys |-> 0,
    pendingFilteredUps |-> 0,
    hadRepeat |-> FALSE,
    events |-> <<>>,
    pendingPresses |-> <<>>,
    listening |-> FALSE,
    attached |-> 0 ]

\* onKeyDown with the flight measured from the previous press instead of the
\* previous release.
onKeyDownFlightFromPress(o, cfg, t, ke) ==
  LET o1 == [o EXCEPT
               !.lastKeydownTime = t,
               !.syntheticEvents = IF ~ke.isTrusted THEN @ + 1 ELSE @,
               !.corrections = IF IsCorrectionKey(ke.key) THEN @ + 1 ELSE @]
  IN  IF ke.repeat
        THEN [o1 EXCEPT !.hadRepeat = TRUE]
      ELSE IF HasModifier(ke)
        THEN [o1 EXCEPT !.pendingFilteredUps = @ + 1]
      ELSE
        LET activeKeys == o1.activeKeys + 1
            isRollover == activeKeys > 1
        IN  [o1 EXCEPT
               !.activeKeys = activeKeys,
               !.rollovers = IF isRollover THEN @ + 1 ELSE @,
               !.total = @ + 1,
               !.flights = IF o1.lastReleaseTime > 0 /\ activeKeys = 1
                             THEN BufPush(@, cfg.windowSize, t - o1.lastPressTime)
                             ELSE @,
               !.pendingPresses =
                  IF cfg.recordEvents
                    THEN Append(@, [pressTime |-> t,
                                    isCorrection |-> IsCorrectionKey(ke.key),
                                    isRollover |-> isRollover])
                    ELSE @,
               !.lastPressTime = t]

\* onKeyDown with the correction check after the repeat and modifier filters.
onKeyDownCorrectionAfterFilters(o, cfg, t, ke) ==
  LET o1 == [o EXCEPT
               !.lastKeydownTime = t,
               !.syntheticEvents = IF ~ke.isTrusted THEN @ + 1 ELSE @]
  IN  IF ke.repeat
        THEN [o1 EXCEPT !.hadRepeat = TRUE]
      ELSE IF HasModifier(ke)
        THEN [o1 EXCEPT !.pendingFilteredUps = @ + 1]
      ELSE
        LET activeKeys == o1.activeKeys + 1
            isRollover == activeKeys > 1
        IN  [o1 EXCEPT
               !.corrections = IF IsCorrectionKey(ke.key) THEN @ + 1 ELSE @,
               !.activeKeys = activeKeys,
               !.rollovers = IF isRollover THEN @ + 1 ELSE @,
               !.total = @ + 1,
               !.flights = IF o1.lastReleaseTime > 0 /\ activeKeys = 1
                             THEN BufPush(@, cfg.windowSize, t - o1.lastReleaseTime)
                             ELSE @,
               !.pendingPresses =
                  IF cfg.recordEvents
                    THEN Append(@, [pressTime |-> t,
                                    isCorrection |-> IsCorrectionKey(ke.key),
                                    isRollover |-> isRollover])
                    ELSE @,
               !.lastPressTime = t]

\* onKeyDown with every accepted keydown counted as a rollover.
onKeyDownRolloverAtOne(o, cfg, t, ke) ==
  LET o1 == [o EXCEPT
               !.lastKeydownTime = t,
               !.syntheticEvents = IF ~ke.isTrusted THEN @ + 1 ELSE @,
               !.corrections = IF IsCorrectionKey(ke.key) THEN @ + 1 ELSE @]
  IN  IF ke.repeat
        THEN [o1 EXCEPT !.hadRepeat = TRUE]
      ELSE IF HasModifier(ke)
        THEN [o1 EXCEPT !.pendingFilteredUps = @ + 1]
      ELSE
        LET activeKeys == o1.activeKeys + 1
            isRollover == activeKeys > 0
        IN  [o1 EXCEPT
               !.activeKeys = activeKeys,
               !.rollovers = IF isRollover THEN @ + 1 ELSE @,
               !.total = @ + 1,
               !.flights = IF o1.lastReleaseTime > 0 /\ activeKeys = 1
                             THEN BufPush(@, cfg.windowSize, t - o1.lastReleaseTime)
                             ELSE @,
               !.pendingPresses =
                  IF cfg.recordEvents
                    THEN Append(@, [pressTime |-> t,
                                    isCorrection |-> IsCorrectionKey(ke.key),
                                    isRollover |-> isRollover])
                    ELSE @,
               !.lastPressTime = t]

\* onKeyDown, at time t = performance.now(), for the keyboard event ke.
onKeyDown(o, cfg, t, ke) ==
  LET o1 == [o EXCEPT
               !.lastKeydownTime = t,
               !.syntheticEvents = IF ~ke.isTrusted THEN @ + 1 ELSE @,
               !.corrections = IF IsCorrectionKey(ke.key) THEN @ + 1 ELSE @]
  IN  IF ke.repeat
        THEN [o1 EXCEPT !.hadRepeat = TRUE]
      ELSE IF HasModifier(ke)
        THEN [o1 EXCEPT !.pendingFilteredUps = @ + 1]
      ELSE
        LET activeKeys == o1.activeKeys + 1
            isRollover == activeKeys > 1
        IN  [o1 EXCEPT
               !.activeKeys = activeKeys,
               !.rollovers = IF isRollover THEN @ + 1 ELSE @,
               !.total = @ + 1,
               !.flights = IF o1.lastReleaseTime > 0 /\ activeKeys = 1
                             THEN BufPush(@, cfg.windowSize, t - o1.lastReleaseTime)
                             ELSE @,
               !.pendingPresses =
                  IF cfg.recordEvents
                    THEN Append(@, [pressTime |-> t,
                                    isCorrection |-> IsCorrectionKey(ke.key),
                                    isRollover |-> isRollover])
                    ELSE @,
               !.lastPressTime = t]

\* onKeyUp with the dwell pushed whether or not the key auto-repeated.
onKeyUpDwellDespiteRepeat(o, cfg, t) ==
  IF o.pendingFilteredUps > 0
    THEN [o EXCEPT !.pendingFilteredUps = @ - 1]
    ELSE
      LET pairing == cfg.recordEvents /\ Len(o.pendingPresses) > 0
          pending == Head(o.pendingPresses)
      IN  [o EXCEPT
             !.dwells = IF o.lastPressTime > 0
                          THEN BufPush(@, cfg.windowSize, t - o.lastPressTime)
                          ELSE @,
             !.events = IF pairing /\ ~o.hadRepeat
                          THEN Append(@, [pressTime |-> pending.pressTime,
                                          releaseTime |-> t,
                                          isCorrection |-> pending.isCorrection,
                                          isRollover |-> pending.isRollover])
                          ELSE @,
             !.pendingPresses = IF pairing THEN Tail(@) ELSE @,
             !.hadRepeat = FALSE,
             !.activeKeys = Max(0, o.activeKeys - 1),
             !.lastReleaseTime = t]

\* onKeyUp with the count of active keys decremented without the floor at 0.
onKeyUpNoFloor(o, cfg, t) ==
  IF o.pendingFilteredUps > 0
    THEN [o EXCEPT !.pendingFilteredUps = @ - 1]
    ELSE
      LET pairing == cfg.recordEvents /\ Len(o.pendingPresses) > 0
          pending == Head(o.pendingPresses)
      IN  [o EXCEPT
             !.dwells = IF o.lastPressTime > 0 /\ ~o.hadRepeat
                          THEN BufPush(@, cfg.windowSize, t - o.lastPressTime)
                          ELSE @,
             !.events = IF pairing /\ ~o.hadRepeat
                          THEN Append(@, [pressTime |-> pending.pressTime,
                                          releaseTime |-> t,
                                          isCorrection |-> pending.isCorrection,
                                          isRollover |-> pending.isRollover])
                          ELSE @,
             !.pendingPresses = IF pairing THEN Tail(@) ELSE @,
             !.hadRepeat = FALSE,
             !.activeKeys = o.activeKeys - 1,
             !.lastReleaseTime = t]

\* onKeyUp, at time t = performance.now().
onKeyUp(o, cfg, t) ==
  IF o.pendingFilteredUps > 0
    THEN [o EXCEPT !.pendingFilteredUps = @ - 1]
    ELSE
      LET pairing == cfg.recordEvents /\ Len(o.pendingPresses) > 0
          pending == Head(o.pendingPresses)
      IN  [o EXCEPT
             !.dwells = IF o.lastPressTime > 0 /\ ~o.hadRepeat
                          THEN BufPush(@, cfg.windowSize, t - o.lastPressTime)
                          ELSE @,
             !.events = IF pairing /\ ~o.hadRepeat
                          THEN Append(@, [pressTime |-> pending.pressTime,
                                          releaseTime |-> t,
                                          isCorrection |-> pending.isCorrection,
                                          isRollover |-> pending.isRollover])
                          ELSE @,
             !.pendingPresses = IF pairing THEN Tail(@) ELSE @,
             !.hadRepeat = FALSE,
             !.activeKeys = Max(0, o.activeKeys - 1),
             !.lastReleaseTime = t]

\* onPaste
onPaste(o) == [o EXCEPT !.pasteDetected = TRUE]

\* onInput with the grace window closed at its end: >= instead of >.
onInputAtThreshold(o, t) ==
  IF t - o.lastKeydownTime >= INPUT_WITHOUT_KEYSTROKE_MS
    THEN [o EXCEPT !.inputWithoutKeystrokes = TRUE,
                   !.inputWithoutKeystrokeCount = @ + 1,
                   !.lastReleaseTime = 0]
    ELSE o

\* onInput, at time t = performance.now().
onInput(o, t) ==
  IF t - o.lastKeydownTime > INPUT_WITHOUT_KEYSTROKE_MS
    THEN [o EXCEPT !.inputWithoutKeystrokes = TRUE,
                   !.inputWithoutKeystrokeCount = @ + 1,
                   !.lastReleaseTime = 0]
    ELSE o

\* A start() that also forgets that a paste was seen.
originalStartFresh(o) ==
  IF o.listening THEN o
  ELSE [o EXCEPT !.listening = TRUE, !.attached = @ + 1, !.pasteDetected = FALSE]

\* A start() without the listening guard: it attaches on every call.
originalStartUnguarded(o) == [o EXCEPT !.listening = TRUE, !.attached = @ + 1]

\* observer.start(): attaches the four listeners unless already listening.
originalStart(o) ==
  IF o.listening THEN o ELSE [o EXCEPT !.listening = TRUE, !.attached = @ + 1]

\* A stop() that clears the flag and leaves the listeners on the target.
originalStopKeepsListeners(o) ==
  IF ~o.listening THEN o ELSE [o EXCEPT !.listening = FALSE]

\* observer.stop(): detaches the four listeners if listening.
originalStop(o) ==
  IF ~o.listening THEN o
  ELSE [o EXCEPT !.listening = FALSE, !.attached = Max(0, @ - 1)]

\* A clear() that forgets the dwell buffer.
clearKeepsDwells(o, cfg) ==
  [o EXCEPT
     !.flights = BufClear(@),
     !.corrections = 0,
     !.rollovers = 0,
     !.total = 0,
     !.pasteDetected = FALSE,
     !.syntheticEvents = 0,
     !.inputWithoutKeystrokes = FALSE,
     !.inputWithoutKeystrokeCount = 0,
     !.lastKeydownTime = 0,
     !.lastPressTime = 0,
     !.lastReleaseTime = 0,
     !.activeKeys = 0,
     !.pendingFilteredUps = 0,
     !.hadRepeat = FALSE,
     !.events = IF cfg.recordEvents THEN <<>> ELSE @,
     !.pendingPresses = IF cfg.recordEvents THEN <<>> ELSE @]

\* A clear() that forgets the count of keys that are down.
clearKeepsActiveKeys(o, cfg) ==
  [o EXCEPT
     !.dwells = BufClear(@),
     !.flights = BufClear(@),
     !.corrections = 0,
     !.rollovers = 0,
     !.total = 0,
     !.pasteDetected = FALSE,
     !.syntheticEvents = 0,
     !.inputWithoutKeystrokes = FALSE,
     !.inputWithoutKeystrokeCount = 0,
     !.lastKeydownTime = 0,
     !.lastPressTime = 0,
     !.lastReleaseTime = 0,
     !.pendingFilteredUps = 0,
     !.hadRepeat = FALSE,
     !.events = IF cfg.recordEvents THEN <<>> ELSE @,
     !.pendingPresses = IF cfg.recordEvents THEN <<>> ELSE @]

\* observer.clear(): every counter, flag and tracking variable back to its
\* initial value; the buffers are cleared in place; listeners stay attached.
clear(o, cfg) ==
  [o EXCEPT
     !.dwells = BufClear(@),
     !.flights = BufClear(@),
     !.corrections = 0,
     !.rollovers = 0,
     !.total = 0,
     !.pasteDetected = FALSE,
     !.syntheticEvents = 0,
     !.inputWithoutKeystrokes = FALSE,
     !.inputWithoutKeystrokeCount = 0,
     !.lastKeydownTime = 0,
     !.lastPressTime = 0,
     !.lastReleaseTime = 0,
     !.activeKeys = 0,
     !.pendingFilteredUps = 0,
     !.hadRepeat = FALSE,
     !.events = IF cfg.recordEvents THEN <<>> ELSE @,
     !.pendingPresses = IF cfg.recordEvents THEN <<>> ELSE @]

\* observer.destroy(): stop() then clear().
observerDestroy(o, cfg) == clear(originalStop(o), cfg)

\* target.dispatchEvent: the target calls the handler once for each time it is
\* attached; once is the observer after one run of the handler, twice after
\* two (which stands for two or more); with nothing attached the event
\* changes nothing.
Dispatch(o, once, twice) ==
  IF o.attached = 0 THEN o
  ELSE IF o.attached = 1 THEN once
  ELSE twice

\* ---------------------------------------------------------------- analyzer
\* Scores, weights, ratios and slopes are fixed-point numbers in thousandths:
\* 500 stands for 0.5.  Dwell and flight samples are whole milliseconds; their
\* mean and standard deviation are in thousandths of a millisecond.

\* The number 1 in thousandths.
One == 1000

\* utils.ts clamp
clamp(value, min, max) ==
  IF value < min THEN min ELSE IF value > max THEN max ELSE value

RECURSIVE SumSeq(_)
SumSeq(values) ==
  IF values = <<>> THEN 0 ELSE values[1] + SumSeq(Tail(values))

\* utils.ts mean: 0 for the empty array.
mean(values) ==
  IF Len(values) = 0 THEN 0 ELSE (SumSeq(values) * One) \div Len(values)

\* Math.sqrt on the naturals, rounded down.
RECURSIVE MathSqrt(_)
MathSqrt(n) ==
  IF n < 2 THEN n
  ELSE LET small == 2 * MathSqrt(n \div 4)
           large == small + 1
       IN  IF large * large > n THEN small ELSE large

\* utils.ts stddev: the population standard deviation, 0 for fewer than two
\* values.  The deviations are squared in tenths of a millisecond.
stddev(values) ==
  IF Len(values) < 2 THEN 0
  ELSE LET m == mean(values)
           sq(i) == LET d == (values[i] * One - m) \div 100 IN d * d
           sumSq == SumSeq([i \in 1..Len(values) |-> sq(i)])
       IN  MathSqrt(sumSq \div Len(values)) * 100

\* e^q for a whole q.
RECURSIVE ExpWhole(_)
ExpWhole(q) ==
  IF q = 0 THEN One
  ELSE IF q > 0 THEN (ExpWhole(q - 1) * 2718) \div One
  ELSE (ExpWhole(q + 1) * One) \div 2718

\* e^r for 0 <= r < 1: the exponential series up to the sixth power.
ExpFraction(r) ==
  LET t1 == r
      t2 == (t1 * r) \div (2 * One)
      t3 == (t2 * r) \div (3 * One)
      t4 == (t3 * r) \div (4 * One)
      t5 == (t4 * r) \div (5 * One)
      t6 == (t5 * r) \div (6 * One)
  IN  One + t1 + t2 + t3 + t4 + t5 + t6

\* Math.exp: never negative.  Beyond e^7 and below e^-7 the argument is cut
\* off, where the sigmoid is 0 and 1 to three decimals.
MathExp(y) ==
  LET c == clamp(y, (0 - 7) * One, 7 * One - 1)
  IN  (ExpWhole(c \div One) * ExpFraction(c % One)) \div One

\* utils.ts sigmoid: 1 / (1 + exp(-k (x - midpoint)))
sigmoid(x, k, midpoint) ==
  (One * One) \div (One + MathExp(((0 - k) * (x - midpoint)) \div One))

DEFAULT_WEIGHTS ==
  [ dwellVariance |-> 150, flightFit |-> 150, timingEntropy |-> 200,
    correctionRatio |-> 100, burstRegularity |-> 150, rolloverRate |-> 250 ]

MIN_DWELL_SAMPLES == 5

MIN_FLIGHT_SAMPLES == 5

MIN_ENTROPY_SAMPLES == 5

MIN_CORRECTION_SAMPLES == 5

MIN_BURST_SAMPLES == 10

MIN_ROLLOVER_SAMPLES == 10

\* Sentinel: the metric has no behavioural data to score.
NO_DATA == -1

DWELL_UP_SLOPE == 300

DWELL_UP_MIDPOINT_MS == 8000

DWELL_DOWN_SLOPE == -50

DWELL_DOWN_MIDPOINT_MS == 80000

IKI_FLOOR_MS == 60

SUB_FLOOR_RATIO_THRESHOLD == 500

IKI_FLOOR_PENALTY == 150

FLUCTUATION_SIGMOID_SLOPE == 1000

FLUCTUATION_SIGMOID_MIDPOINT == 4000

ENTROPY_UP_SLOPE == 3000

ENTROPY_UP_MIDPOINT_BITS == 1500

ENTROPY_DOWN_SLOPE == -3000

ENTROPY_DOWN_MIDPOINT_BITS == 3500

ENTROPY_WEIGHT == 700

FLUCTUATION_WEIGHT == 300

CORRECTION_SIGMOID_SLOPE == 80000

CORRECTION_SIGMOID_MIDPOINT == 15

EXCESSIVE_CORRECTION_THRESHOLD == 300

EXCESSIVE_CORRECTION_PENALTY == 800

BURST_GAP_MS == 300

BURST_CV_SLOPE == 8000

BURST_CV_MIDPOINT == 200

ROLLOVER_SIGMOID_SLOPE == 60000

ROLLOVER_SIGMOID_MIDPOINT == 30

SPOOF_WEIGHT_LOGNORMALITY == 450

SPOOF_WEIGHT_UNIFORMITY == 300

SPOOF_WEIGHT_AUTOCORR == 250

\* scoreDwellVariance
scoreDwellVariance(dwells) ==
  IF Len(dwells) < MIN_DWELL_SAMPLES THEN One \div 2
  ELSE LET sd == stddev(dwells)
           up == sigmoid(sd, DWELL_UP_SLOPE, DWELL_UP_MIDPOINT_MS)
           down == sigmoid(sd, DWELL_DOWN_SLOPE, DWELL_DOWN_MIDPOINT_MS)
       IN  (up * down) \div One

\* anti-spoof.ts detectSpoof: genuineScore from the three sub-scores.  The
\* sub-scores come from the Kolmogorov-Smirnov fits and the autocorrelation of
\* the flights; here they are given, as fit = [logNormality, uniformity,
\* corrScore].
detectSpoof(fit) ==
  Max(0, Min(One, (SPOOF_WEIGHT_LOGNORMALITY * fit.logNormality
                    + SPOOF_WEIGHT_UNIFORMITY * (One - fit.uniformity)
                    + SPOOF_WEIGHT_AUTOCORR * fit.corrScore) \div One))

scoreFlightFitAtHalf(flights, fit) ==
  IF Len(flights) < MIN_FLIGHT_SAMPLES THEN One \div 2
  ELSE LET genuineScore == detectSpoof(fit)
           subFloor == Cardinality({i \in 1..Len(flights) : flights[i] < IKI_FLOOR_MS})
           ikiPenalty == IF (subFloor * One) \div Len(flights) >= SUB_FLOOR_RATIO_THRESHOLD
                           THEN IKI_FLOOR_PENALTY ELSE One
       IN  (genuineScore * ikiPenalty) \div One

\* scoreFlightFit
scoreFlightFit(flights, fit) ==
  IF Len(flights) < MIN_FLIGHT_SAMPLES THEN One \div 2
  ELSE LET genuineScore == detectSpoof(fit)
           subFloor == Cardinality({i \in 1..Len(flights) : flights[i] < IKI_FLOOR_MS})
           ikiPenalty == IF (subFloor * One) \div Len(flights) > SUB_FLOOR_RATIO_THRESHOLD
                           THEN IKI_FLOOR_PENALTY ELSE One
       IN  (genuineScore * ikiPenalty) \div One

RECURSIVE MinSeq(_)
MinSeq(values) ==
  IF Len(values) = 1 THEN values[1] ELSE Min(values[1], MinSeq(Tail(values)))

RECURSIVE MaxSeq(_)
MaxSeq(values) ==
  IF Len(values) = 1 THEN values[1] ELSE Max(values[1], MaxSeq(Tail(values)))

\* ------------------------------------------------ anti-spoof.ts on doubles
\* The three sub-scores of detectSpoof, computed on binary64 numbers.  A
\* double is its significand of 53 bits, in two limbs hi * Limb + lo, and its
\* exponent: the value is (hi * Limb + lo) * 2^exp.  A sum of samples keeps
\* the exponent of the samples and grows past 53 bits until it is rounded.

\* The low limb holds 26 bits.
Limb == 2^26

Double(hi, lo, exp) == [hi |-> hi, lo |-> lo, exp |-> exp]

\* Rounding to 53 bits, to nearest and ties to even; sticky when a remainder
\* lies below the bits given.  g is the weight of the last of the 53 bits: a
\* high limb below 2^27 has no bit beyond them.
RoundNearestEven(x, sticky) ==
  LET g == IF x.hi < 2^27 THEN 1
           ELSE IF x.hi < 2^28 THEN 2
           ELSE IF x.hi < 2^29 THEN 4
           ELSE IF x.hi < 2^30 THEN 8
           ELSE 16
      r == x.lo % g
      down == x.lo - r
      up == \/ 2 * r > g
            \/ 2 * r = g /\ (sticky \/ (down \div g) % 2 = 1)
      lo == IF up THEN down + g ELSE down
  IN  IF lo = Limb THEN Double(x.hi + 1, 0, x.exp) ELSE Double(x.hi, lo, x.exp)

\* x - y for doubles within a factor of two of each other, where the
\* difference is exact: in units of the last place of the samples.
Minus64(x, y) == (x.hi - y.hi) * Limb + (x.lo - y.lo)

\* utils.ts mean: let sum = 0; sum += values[i], one after the other.
\* The sum of doubles of one exponent is rounded after every addition.
RECURSIVE sumTo(_, _)
sumTo(values, i) ==
  LET plus(x, y) ==
        RoundNearestEven(IF x.lo + y.lo >= Limb
                           THEN Double(x.hi + y.hi + 1, x.lo + y.lo - Limb, x.exp)
                         ELSE Double(x.hi + y.hi, x.lo + y.lo, x.exp), FALSE)
  IN  IF i = 0 THEN Double(0, 0, values[1].exp)
      ELSE CHOOSE sum \in { plus(x, values[i]) : x \in {sumTo(values, i - 1)} } : TRUE

\* utils.ts mean on doubles: sum / values.length, where the quotient keeps
\* 52 bits or more.
mean64(values) ==
  LET n == Len(values)
      over(x) ==
        LET t == (x.hi % n) * Limb + x.lo
            q == Double(x.hi \div n, t \div n, x.exp)
            rem == t % n
        IN  IF q.hi >= 2^27 THEN RoundNearestEven(q, rem # 0)
            ELSE IF 2 * rem > n \/ (2 * rem = n /\ q.lo % 2 = 1)
                   THEN IF q.lo + 1 = Limb THEN Double(q.hi + 1, 0, q.exp)
                        ELSE Double(q.hi, q.lo + 1, q.exp)
            ELSE q
  IN  CHOOSE m \in { over(x) : x \in {sumTo(values, n)} } : TRUE

\* values[i] - m of stddev and autocorrelation, in units of the last place.
deviations(values) ==
  LET from(m) == [i \in 1..Len(values) |-> Minus64(values[i], m)]
  IN  CHOOSE d \in { from(m) : m \in {mean64(values)} } : TRUE

\* sumSq of stddev and den of autocorrelation: the squares of small whole
\* numbers of units and their sums are exact.
sumSq(d) == SumSeq([i \in 1..Len(d) |-> d[i] * d[i]])

\* utils.ts autocorrelation, in thousandths.
autocorrelation(values) ==
  IF Len(values) < 3 THEN 0
  ELSE LET d == deviations(values)
           den == sumSq(d)
           num == SumSeq([i \in 1..Len(d) |-> IF i > 1 THEN d[i] * d[i - 1] ELSE 0])
       IN  IF den = 0 THEN 0 ELSE (num * One) \div den

\* utils.ts normalCDF, the approximation of Abramowitz and Stegun with its
\* coefficients in thousandths.
normalCDF(x) ==
  LET abs == IF x < 0 THEN 0 - x ELSE x
      t == (One * One) \div (One + (232 * abs) \div One)
      poly == (t * (319 + (t * ((0 - 357) + (t * (1781 + (t * ((0 - 1821)
                 + (t * 1330) \div One)) \div One)) \div One)) \div One)) \div One
      p == (((399 * MathExp((((0 - x) * x) \div One) \div 2)) \div One) * poly) \div One
  IN  IF x >= 0 THEN One - p ELSE p

\* anti-spoof.ts ksStatistic on the theoretical CDF at the sorted samples.
ksStatistic(theoretical) ==
  LET n == Len(theoretical)
      d(i) == LET d1 == ((i * One) \div n) - theoretical[i]
                  d2 == (((i - 1) * One) \div n) - theoretical[i]
              IN  Max(IF d1 < 0 THEN 0 - d1 ELSE d1, IF d2 < 0 THEN 0 - d2 ELSE d2)
  IN  MaxSeq([i \in 1..n |-> d(i)] \o <<0>>)

MIN_KS_SAMPLES == 5

KS_CRITICAL_COEFF == 1220

KS_PASS_BASELINE == 700

KS_PASS_BONUS == 300

KS_FAIL_BASELINE == 700

AUTOCORR_NOISE_FLOOR == 50

AUTOCORR_HUMAN_MAX == 300

\* The score of a KS statistic D against the critical value for n samples.
ksScore(D, n) ==
  LET critical == (KS_CRITICAL_COEFF * One) \div MathSqrt(n * One * One)
  IN  IF D <= critical
        THEN KS_PASS_BASELINE + (KS_PASS_BONUS * (One - (D * One) \div critical)) \div One
      ELSE Max(0, (KS_FAIL_BASELINE * ((critical * One) \div D)) \div One)

\* anti-spoof.ts computeLogNormalityScore.  logged[i] is Math.log(flights[i]);
\* the flights are all positive, so none is filtered out.
computeLogNormalityScore(flights, logged) ==
  IF Len(flights) < MIN_KS_SAMPLES THEN One \div 2
  ELSE LET d == deviations(logged)
           variance == (sumSq(d) * One * One) \div Len(d)
       IN  IF variance = 0 THEN 0
           ELSE LET sigma == MathSqrt(variance)
                    z == SortSeq([i \in 1..Len(d) |-> (d[i] * One * One) \div sigma],
                                 LAMBDA a, b : a < b)
                    D == ksStatistic([i \in 1..Len(z) |-> normalCDF(z[i])])
                IN  ksScore(D, Len(d))

\* anti-spoof.ts computeUniformityScore.
computeUniformityScore(flights) ==
  IF Len(flights) < MIN_KS_SAMPLES THEN One \div 2
  ELSE LET off == SortSeq([i \in 1..Len(flights) |-> Minus64(flights[i], flights[1])],
                          LAMBDA a, b : a < b)
           min == off[1]
           range == off[Len(off)] - min
       IN  IF range = 0 THEN 0
           ELSE ksScore(ksStatistic([i \in 1..Len(off) |->
                                       ((off[i] - min) * One) \div range]), Len(off))

\* anti-spoof.ts detectSpoof on the flights: the sub-scores, the serial
\* correlation and the genuineScore made of them.
detectSpoofOn(flights, logged) ==
  LET serialCorrelation == IF Len(flights) >= 3 THEN autocorrelation(flights) ELSE 0
      absCorr == IF serialCorrelation < 0 THEN 0 - serialCorrelation ELSE serialCorrelation
      fit == [ logNormality |-> computeLogNormalityScore(flights, logged),
               uniformity |-> computeUniformityScore(flights),
               corrScore |-> IF absCorr > AUTOCORR_NOISE_FLOOR
                               THEN Min(One, (absCorr * One) \div AUTOCORR_HUMAN_MAX)
                             ELSE 0 ]
  IN  [ genuineScore |-> detectSpoof(fit), logNormality |-> fit.logNormality,
        uniformity |-> fit.uniformity, serialCorrelation |-> serialCorrelation ]

\* scoreTimingEntropy.  entropy is shannonEntropy(flights, 10), in thousandths
\* of a bit; it is given.
scoreTimingEntropy(flights, entropy) ==
  IF Len(flights) < MIN_ENTROPY_SAMPLES THEN One \div 2
  ELSE LET min == MinSeq(flights)
           max == MaxSeq(flights)
           fluctuation == IF min > 0 THEN (max * One) \div min ELSE 0
           fluctScore == sigmoid(fluctuation, FLUCTUATION_SIGMOID_SLOPE,
                                 FLUCTUATION_SIGMOID_MIDPOINT)
           up == sigmoid(entropy, ENTROPY_UP_SLOPE, ENTROPY_UP_MIDPOINT_BITS)
           down == sigmoid(entropy, ENTROPY_DOWN_SLOPE, ENTROPY_DOWN_MIDPOINT_BITS)
           entropyScore == (up * down) \div One
       IN  (ENTROPY_WEIGHT * entropyScore) \div One
             + (FLUCTUATION_WEIGHT * fluctScore) \div One

\* A scoreCorrectionRatio that reports zero corrections as the score 0.
scoreCorrectionRatioZero(corrections, total) ==
  IF total < MIN_CORRECTION_SAMPLES THEN One \div 2
  ELSE LET ratio == (corrections * One) \div total
           raw == sigmoid(ratio, CORRECTION_SIGMOID_SLOPE, CORRECTION_SIGMOID_MIDPOINT)
           floor == sigmoid(0, CORRECTION_SIGMOID_SLOPE, CORRECTION_SIGMOID_MIDPOINT)
           score == ((raw - floor) * One) \div (One - floor)
       IN  IF ratio > EXCESSIVE_CORRECTION_THRESHOLD
             THEN (score * EXCESSIVE_CORRECTION_PENALTY) \div One
             ELSE score

\* scoreCorrectionRatio
scoreCorrectionRatio(corrections, total) ==
  IF total < MIN_CORRECTION_SAMPLES THEN One \div 2
  ELSE IF corrections = 0 THEN NO_DATA
  ELSE LET ratio == (corrections * One) \div total
           raw == sigmoid(ratio, CORRECTION_SIGMOID_SLOPE, CORRECTION_SIGMOID_MIDPOINT)
           floor == sigmoid(0, CORRECTION_SIGMOID_SLOPE, CORRECTION_SIGMOID_MIDPOINT)
           score == ((raw - floor) * One) \div (One - floor)
       IN  IF ratio > EXCESSIVE_CORRECTION_THRESHOLD
             THEN (score * EXCESSIVE_CORRECTION_PENALTY) \div One
             ELSE score

\* scoreBurstRegularity
scoreBurstRegularity(flights) ==
  IF Len(flights) < MIN_BURST_SAMPLES THEN One \div 2
  ELSE LET IsGap(f) == f > BURST_GAP_MS
           burstGaps == SelectSeq(flights, IsGap)
       IN  IF Len(burstGaps) < 2 THEN NO_DATA
           ELSE LET gapStddev == stddev(burstGaps)
                    gapMean == mean(burstGaps)
                    cv == IF gapMean > 0 THEN (gapStddev * One) \div gapMean ELSE 0
                IN  sigmoid(cv, BURST_CV_SLOPE, BURST_CV_MIDPOINT)

\* A scoreRolloverRate that looks for zero rollovers before the sample gate.
scoreRolloverRateSentinelFirst(rollovers, total) ==
  IF rollovers = 0 THEN NO_DATA
  ELSE IF total < MIN_ROLLOVER_SAMPLES THEN One \div 2
  ELSE LET ratio == (rollovers * One) \div total
           raw == sigmoid(ratio, ROLLOVER_SIGMOID_SLOPE, ROLLOVER_SIGMOID_MIDPOINT)
           floor == sigmoid(0, ROLLOVER_SIGMOID_SLOPE, ROLLOVER_SIGMOID_MIDPOINT)
       IN  ((raw - floor) * One) \div (One - floor)

\* scoreRolloverRate
scoreRolloverRate(rollovers, total) ==
  IF total < MIN_ROLLOVER_SAMPLES THEN One \div 2
  ELSE IF rollovers = 0 THEN NO_DATA
  ELSE LET ratio == (rollovers * One) \div total
           raw == sigmoid(ratio, ROLLOVER_SIGMOID_SLOPE, ROLLOVER_SIGMOID_MIDPOINT)
           floor == sigmoid(0, ROLLOVER_SIGMOID_SLOPE, ROLLOVER_SIGMOID_MIDPOINT)
       IN  ((raw - floor) * One) \div (One - floor)

\* analyze: the raw scores.  lib = [fit, entropy] holds what anti-spoof.ts and
\* shannonEntropy return for the flights.
rawScores(dwells, flights, corrections, rollovers, total, lib) ==
  [ dwellVariance |-> scoreDwellVariance(dwells),
    flightFit |-> scoreFlightFit(flights, lib.fit),
    timingEntropy |-> scoreTimingEntropy(flights, lib.entropy),
    correctionRatio |-> scoreCorrectionRatio(corrections, total),
    burstRegularity |-> scoreBurstRegularity(flights),
    rolloverRate |-> scoreRolloverRate(rollovers, total) ]

\* A reporting that hands out the raw scores as they are.
publicMetricsRaw(raw) == raw

\* analyze: the public metrics, NO_DATA replaced by 0.
publicMetrics(raw) ==
  [k \in DOMAIN raw |-> IF raw[k] = NO_DATA THEN 0 ELSE raw[k]]

\* analyze: the order in which the metrics are accumulated.
keys ==
  << "dwellVariance", "flightFit", "timingEntropy",
     "correctionRatio", "burstRegularity", "rolloverRate" >>

\* An accumulation that keeps the weight of a gated metric in the
\* denominator: the metric counts as the placeholder 0.
RECURSIVE accumulatePlaceholder(_, _, _)
accumulatePlaceholder(raw, weights, i) ==
  IF i = 0 THEN [weightedSum |-> 0, weightSum |-> 0]
  ELSE LET acc == accumulatePlaceholder(raw, weights, i - 1)
           k == keys[i]
       IN  IF raw[k] # NO_DATA
             THEN [ weightedSum |-> acc.weightedSum + weights[k] * raw[k],
                    weightSum |-> acc.weightSum + weights[k] ]
             ELSE [acc EXCEPT !.weightSum = @ + weights[k]]

\* An accumulation that does not skip the gated metrics.
RECURSIVE accumulateAll(_, _, _)
accumulateAll(raw, weights, i) ==
  IF i = 0 THEN [weightedSum |-> 0, weightSum |-> 0]
  ELSE LET acc == accumulateAll(raw, weights, i - 1)
           k == keys[i]
       IN  [ weightedSum |-> acc.weightedSum + weights[k] * raw[k],
             weightSum |-> acc.weightSum + weights[k] ]

\* analyze: weightedSum and weightSum after the first i keys of the loop;
\* weightedSum is in millionths.
RECURSIVE accumulate(_, _, _)
accumulate(raw, weights, i) ==
  IF i = 0 THEN [weightedSum |-> 0, weightSum |-> 0]
  ELSE LET k == keys[i]
           next(acc) ==
             IF raw[k] # NO_DATA
               THEN [ weightedSum |-> acc.weightedSum + weights[k] * raw[k],
                      weightSum |-> acc.weightSum + weights[k] ]
               ELSE acc
       IN  CHOOSE r \in { next(acc) : acc \in {accumulate(raw, weights, i - 1)} } : TRUE

\* A composite that is the neutral 0.5 when no weight is left.
compositeScoreNeutral(raw, weights) ==
  LET acc == accumulate(raw, weights, Len(keys))
  IN  IF acc.weightSum > 0
        THEN clamp(acc.weightedSum \div acc.weightSum, 0, One)
        ELSE One \div 2

\* analyze: the composite score.
compositeScore(raw, weights) ==
  LET acc == accumulate(raw, weights, Len(keys))
  IN  IF acc.weightSum > 0
        THEN clamp(acc.weightedSum \div acc.weightSum, 0, One)
        ELSE 0

\* An analyze that is confident only above minSamples.
analyzeConfidentAbove(acfg, dwells, flights, corrections, rollovers, total, lib) ==
  LET sampleCount == Len(dwells)
      raw == rawScores(dwells, flights, corrections, rollovers, total, lib)
  IN  [ score |-> compositeScore(raw, acfg.weights),
        metrics |-> publicMetrics(raw),
        sampleCount |-> sampleCount,
        confident |-> sampleCount > acfg.minSamples ]

\* createAnalyzer(acfg).analyze, on the arrays of the two buffers.
analyze(acfg, dwells, flights, corrections, rollovers, total, lib) ==
  LET sampleCount == Len(dwells)
      result(raw) == [ score |-> compositeScore(raw, acfg.weights),
                       metrics |-> publicMetrics(raw),
                       sampleCount |-> sampleCount,
                       confident |-> sampleCount >= acfg.minSamples ]
  IN  CHOOSE r \in { result(raw) :
                       raw \in {rawScores(dwells, flights, corrections, rollovers,
                                          total, lib)} } : TRUE

\* ------------------------------------- the analyzer of src/src/analyzer.ts
\* src/src/analyzer.ts scores without the sentinel: its scoreCorrectionRatio
\* rescales the sigmoid to [0.5, 1], and its analyze adds weight * metric over
\* the six metrics without dividing by the weights.

\* A scoreCorrectionRatio that returns the sigmoid as it is, floor included.
scoreCorrectionRatioUnscaled(corrections, total) ==
  IF total < MIN_CORRECTION_SAMPLES THEN One \div 2
  ELSE LET ratio == (corrections * One) \div total
           raw == sigmoid(ratio, 80 * One, 15)
       IN  IF ratio > 300 THEN (raw * 800) \div One ELSE raw

\* scoreCorrectionRatio of src/src/analyzer.ts: sigmoid(ratio, 80, 0.015)
\* rescaled from [floor, 1] to [0.5, 1], times 0.8 above a ratio of 0.3.
scoreCorrectionRatioRescaled(corrections, total) ==
  IF total < MIN_CORRECTION_SAMPLES THEN One \div 2
  ELSE LET ratio == (corrections * One) \div total
           raw == sigmoid(ratio, 80 * One, 15)
           floor == sigmoid(0, 80 * One, 15)
           score == One \div 2 + ((One \div 2) * (raw - floor)) \div (One - floor)
       IN  IF ratio > 300 THEN (score * 800) \div One ELSE score

\* The score of src/src/analyzer.ts's analyze: the weighted sum, clamped.
RECURSIVE weightedSum(_, _, _)
weightedSum(metrics, weights, i) ==
  IF i = 0 THEN 0
  ELSE weightedSum(metrics, weights, i - 1) + weights[keys[i]] * metrics[keys[i]]

weightedScore(metrics, weights) ==
  clamp(weightedSum(metrics, weights, Len(keys)) \div One, 0, One)

\* ------------------------------------------------------------------ facade

\* Number of dwell samples needed for a confident result (config.minSamples).
MinSamples == 2

\* lastResult before any computation and after reset(): the score and every
\* metric 0.5, no samples, not confident, no signals.
NeutralResult ==
  [ score |-> One \div 2,
    metrics |-> [k \in {keys[i] : i \in 1..Len(keys)} |-> One \div 2],
    sampleCount |-> 0,
    confident |-> FALSE,
    signals |-> [ pasteDetected |-> FALSE,
                  syntheticEvents |-> 0,
                  insufficientData |-> TRUE,
                  inputWithoutKeystrokes |-> FALSE,
                  inputWithoutKeystrokeCount |-> 0 ] ]

\* createCadence: the closure's variables after construction, and
\* onScoreCalls: how many times the facade has called config.onScore.  A handle of 0
\* stands for undefined; the host hands out handles from 1.
createCadence ==
  [ dirty |-> FALSE,
    idleHandle |-> 0,
    timeoutHandle |-> 0,
    keystrokeListener |-> FALSE,
    lastResult |-> NeutralResult,
    onScoreCalls |-> 0 ]

\* requestIdleCallback's timeout: the host runs an idle callback at the latest
\* this many ms after the request.
IDLE_TIMEOUT == 1000

\* setTimeout's delay when the host has no requestIdleCallback.
FALLBACK_DELAY == 100

\* The host's scheduler: the handles of the pending idle callbacks, the pending
\* timers (handle and the time from which the timer may fire), and the next
\* handle it hands out.
NoCallbacks == [idle |-> {}, timers |-> {}, next |-> 1]

\* clearTimeout(handle)
ClearTimeout(timers, handle) == {tm \in timers : tm.id # handle}

\* What anti-spoof.ts and shannonEntropy return for fewer flights than the
\* metrics' gates: the neutral fit, no entropy.
ShortLib ==
  [ fit |-> [logNormality |-> One \div 2, uniformity |-> One \div 2, corrScore |-> 0],
    entropy |-> 0 ]

\* computeScore: read the observer, analyze, store the result, clear dirty,
\* call onScore when the configuration has one.
\* The facade's analyzer has the default weights.
computeScore(c, o, ccfg) ==
  LET capacity == Cardinality(DOMAIN o.dwells.data)
      analyzed == analyze([minSamples |-> ccfg.minSamples, weights |-> DEFAULT_WEIGHTS],
                          BufToArray(o.dwells, capacity),
                          BufToArray(o.flights, capacity),
                          o.corrections, o.rollovers, o.total, ShortLib)
      stored(base) ==
        [c EXCEPT
           !.lastResult =
              [ score |-> base.score,
                metrics |-> base.metrics,
                sampleCount |-> base.sampleCount,
                confident |-> base.confident,
                signals |-> [ pasteDetected |-> o.pasteDetected,
                              syntheticEvents |-> o.syntheticEvents,
                              insufficientData |-> base.sampleCount < ccfg.minSamples,
                              inputWithoutKeystrokes |-> o.inputWithoutKeystrokes,
                              inputWithoutKeystrokeCount |-> o.inputWithoutKeystrokeCount ] ],
           !.dirty = FALSE,
           !.onScoreCalls = IF ccfg.onScore THEN @ + 1 ELSE @]
  IN  CHOOSE c2 \in { stored(base) : base \in {analyzed} } : TRUE

\* A scheduleAnalysis that requests a callback without cancelling the pending one.
scheduleAnalysisNoCancel(ch, ccfg, t) ==
  LET c == ch.c
      h == ch.h
  IN  IF ~c.dirty THEN ch
      ELSE IF ccfg.hasRIC
        THEN [c |-> [c EXCEPT !.idleHandle = h.next],
              h |-> [h EXCEPT !.idle = @ \cup {h.next}, !.next = @ + 1]]
        ELSE [c |-> [c EXCEPT !.timeoutHandle = h.next],
              h |-> [h EXCEPT !.timers = @ \cup {[id |-> h.next, due |-> t + FALLBACK_DELAY]},
                              !.next = @ + 1]]

\* scheduleAnalysis at time t, on the pair ch = [c |-> facade, h |-> host]:
\* nothing unless dirty; otherwise cancel the pending request and make a new
\* one, with requestIdleCallback when the host has it and setTimeout when not.
scheduleAnalysis(ch, ccfg, t) ==
  LET c == ch.c
      h == ch.h
  IN  IF ~c.dirty THEN ch
      ELSE IF ccfg.hasRIC
        THEN [c |-> [c EXCEPT !.idleHandle = h.next],
              h |-> [h EXCEPT !.idle = (@ \ {c.idleHandle}) \cup {h.next},
                              !.next = @ + 1]]
        ELSE [c |-> [c EXCEPT !.timeoutHandle = h.next],
              h |-> [h EXCEPT !.timers = ClearTimeout(@, c.timeoutHandle)
                                           \cup {[id |-> h.next, due |-> t + FALLBACK_DELAY]},
                              !.next = @ + 1]]

\* An onKeystroke that schedules whatever the scheduling mode.
onKeystrokeAlwaysSchedules(ch, ccfg, t) ==
  scheduleAnalysis([ch EXCEPT !.c.dirty = TRUE], ccfg, t)

\* An onKeystroke that schedules before it sets dirty.
onKeystrokeSchedulesFirst(ch, ccfg, t) ==
  LET scheduled == IF ccfg.scheduling = "idle" THEN scheduleAnalysis(ch, ccfg, t) ELSE ch
  IN  [scheduled EXCEPT !.c.dirty = TRUE]

\* onKeystroke: the facade's keyup listener.
onKeystroke(ch, ccfg, t) ==
  LET dirtied == [ch EXCEPT !.c.dirty = TRUE]
  IN  IF ccfg.scheduling = "idle" THEN scheduleAnalysis(dirtied, ccfg, t) ELSE dirtied

\* The facade's part of start(): attach the keyup listener once.
start(c) == IF ~c.keystrokeListener THEN [c EXCEPT !.keystrokeListener = TRUE] ELSE c

\* The facade's part of stop(): detach the keyup listener.
stop(c) == IF c.keystrokeListener THEN [c EXCEPT !.keystrokeListener = FALSE] ELSE c

\* A reset that forgets the handles without cancelling the requests.
resetNoCancel(ch) ==
  [c |-> [ch.c EXCEPT !.dirty = FALSE, !.idleHandle = 0, !.timeoutHandle = 0,
                      !.lastResult = NeutralResult],
   h |-> ch.h]

\* The facade's part of reset(): dirty cleared, both pending requests
\* cancelled, lastResult back to the neutral result.
reset(ch) ==
  [c |-> [ch.c EXCEPT !.dirty = FALSE, !.idleHandle = 0, !.timeoutHandle = 0,
                      !.lastResult = NeutralResult],
   h |-> [ch.h EXCEPT !.idle = @ \ {ch.c.idleHandle},
                      !.timers = ClearTimeout(@, ch.c.timeoutHandle)]]

\* ---------------------------------------------- classification, hysteresis
\* Scores are in hundredths: 35 stands for 0.35.

\* The default thresholds: enter-bot (unknownToBot), exit-bot (botToUnknown),
\* enter-human (unknownToHuman), exit-human (humanToUnknown).
DEFAULT_CLASSIFICATION_THRESHOLDS ==
  [ unknownToBot |-> 35, botToUnknown |-> 45,
    unknownToHuman |-> 70, humanToUnknown |-> 60 ]

\* The custom thresholds of the documentation: more lenient towards bots,
\* stricter towards humans.
CustomThresholds ==
  [ unknownToBot |-> 30, botToUnknown |-> 40,
    unknownToHuman |-> 75, humanToUnknown |-> 65 ]

\* The classification state as constructed and after a reset.
createClassifier == "unknown"

\* A transition function that enters human only above the threshold.
classifyEnterHumanAbove(state, score, th) ==
  IF state = "unknown"
    THEN IF score < th.unknownToBot THEN "bot"
         ELSE IF score > th.unknownToHuman THEN "human"
         ELSE "unknown"
  ELSE IF state = "bot"
    THEN IF score >= th.botToUnknown THEN "unknown" ELSE "bot"
  ELSE IF score < th.humanToUnknown THEN "unknown" ELSE "human"

\* A transition function that lets a high score take bot straight to human
\* and a low score take human straight to bot.
classifyDirect(state, score, th) ==
  IF state = "unknown"
    THEN IF score < th.unknownToBot THEN "bot"
         ELSE IF score >= th.unknownToHuman THEN "human"
         ELSE "unknown"
  ELSE IF state = "bot"
    THEN IF score >= th.unknownToHuman THEN "human"
         ELSE IF score >= th.botToUnknown THEN "unknown"
         ELSE "bot"
  ELSE IF score < th.unknownToBot THEN "bot"
       ELSE IF score < th.humanToUnknown THEN "unknown"
       ELSE "human"

\* A transition function without the dead zone: human is left at the
\* threshold at which it is entered.
classifyNoDeadZone(state, score, th) ==
  IF state = "unknown"
    THEN IF score < th.unknownToBot THEN "bot"
         ELSE IF score >= th.unknownToHuman THEN "human"
         ELSE "unknown"
  ELSE IF state = "bot"
    THEN IF score >= th.botToUnknown THEN "unknown" ELSE "bot"
  ELSE IF score < th.unknownToHuman THEN "unknown" ELSE "human"

\* The transition function: the classification after the sample `score`,
\* from the classification `state`.
classify(state, score, th) ==
  IF state = "unknown"
    THEN IF score < th.unknownToBot THEN "bot"
         ELSE IF score >= th.unknownToHuman THEN "human"
         ELSE "unknown"
  ELSE IF state = "bot"
    THEN IF score >= th.botToUnknown THEN "unknown" ELSE "bot"
  ELSE IF score < th.humanToUnknown THEN "unknown" ELSE "human"

\* ---------------------------------------------------------------- state

VARIABLES
  rbCap,      \* capacity of the stand-alone buffer
  rb,         \* the stand-alone buffer
  rbPushed,   \* history: values pushed since the most recent clear
  rbCleared,  \* history: clear() has been called at least once
  config,     \* the observer's configuration: windowSize, recordEvents
  obs,        \* the observer's closure variables
  now,        \* performance.now()
  held,       \* environment: the keys pressed while listening and still down
  nEvents,    \* number of events delivered and of stop/clear/destroy calls so far
  gh,         \* history of the events delivered to the observer
  cadConfig,  \* the facade's configuration: scheduling, minSamples; and whether
              \* the host defines requestIdleCallback
  cad,        \* the facade's closure variables
  host,       \* the host's pending idle callbacks and timers
  hist,       \* history of the deferred computations
  clf,        \* the classification layer: thresholds, classification, and the
              \* history of the latest sample
  an,         \* a stand-alone analyzer: its configuration, the arguments of
              \* analyze, and the result of the latest call
  sp          \* a stand-alone call of detectSpoof: its flights, their
              \* logarithms, and the result of the call

rbVars == <<rbCap, rb, rbPushed, rbCleared>>

obsVars == <<config, obs, now, held, nEvents, gh>>

cadVars == <<cadConfig, cad, host, hist>>

fnVars == <<clf, an, sp>>

vars == <<rbVars, obsVars, cadVars, fnVars>>

\* ---------------------------------------------------------------- history
\* What the environment did, recorded beside the program's state so that the
\* properties can speak of keystrokes rather than of the observer's variables.

\* The observer's timing state: what decides how the next keystroke is recorded.
Timing(o) ==
  [ dwells |-> o.dwells, flights |-> o.flights, total |-> o.total,
    lastPressTime |-> o.lastPressTime, lastReleaseTime |-> o.lastReleaseTime,
    activeKeys |-> o.activeKeys, pendingFilteredUps |-> o.pendingFilteredUps,
    hadRepeat |-> o.hadRepeat ]

\* typing: ok while every event since construction (or a clear with no key
\* down) is an accepted keydown with no other key down or the keyup of that
\* key, at positive times; dwells and flights are then the release - press and
\* press - previous release times of those keystrokes, downAt the time of the
\* keydown whose keyup is to come, lastUp the time of the latest keyup.
VoidTyping ==
  [ok |-> FALSE, dwells |-> <<>>, flights |-> <<>>, downAt |-> -1, lastUp |-> -1]

FreshTyping ==
  [ok |-> TRUE, dwells |-> <<>>, flights |-> <<>>, downAt |-> -1, lastUp |-> -1]

\* sc: a shortcut is in progress: since the state snap, the events are only
\* keydowns carrying a modifier and keyups of the keys so pressed, n of which
\* are still down; rep: one of those keydowns was an auto-repeat; fresh: the
\* first of them was the first key event of the observer.
NoShortcut ==
  [on |-> FALSE, rep |-> FALSE, fresh |-> FALSE, n |-> 0, snap |-> <<>>]

\* rep: an accepted keydown at t0 ("pressed"), then repeat keydowns
\* ("repeating"), then a keyup at t1 ("released"); fresh: the keydown was the
\* first key event of the observer; snap: the state before the first repeat.
NoRepeat ==
  [phase |-> "none", t0 |-> -1, t1 |-> -1, fresh |-> FALSE, snap |-> <<>>]

\* inp: late: an input event came more than the grace window after the most
\* recent keydown and no keyup was delivered since; hadRelease: a release
\* timestamp was recorded when it came.  last: the most recent event is such an
\* input event ("late"), an input event within the grace window of the most
\* recent keydown ("early"), an accepted keydown delivered while late
\* ("keydown"); before: inputWithoutKeystrokeCount, the observer, the flight
\* buffer before that event.
NoLate == [late |-> FALSE, hadRelease |-> FALSE, last |-> "none", before |-> <<>>]

\* The event that follows is neither an input event nor an accepted keydown.
Other(inp) == [inp EXCEPT !.last = "none", !.before = <<>>]

\* lastDown: the time of the most recent keydown since construction or clear,
\* -1 when there is none.  clean: since construction (or a clear with no key
\* down) every event is a non-repeat keydown or the keyup of a key that is
\* held, at positive times.  untouched: there was no key event since then.
\* nCorr: the number of Backspace and Delete keydowns since then.
\* life: the observer's life cycle as its caller sees it.  pasted: a paste
\* event was delivered since construction or the last clear.  halted: start()
\* was never called, or stop() or destroy() was called after the last start().
\* noop: every start() while started and every stop() while halted left the
\* observer as it was.  kept: every stop() left the captured data as it was.
\* frozen, once, roll: see LifeEvent and LifeKeyDown.  reset: every clear()
\* left the observer as one just constructed, but for its listeners.
LifeInit ==
  [ pasted |-> FALSE, halted |-> TRUE, noop |-> TRUE, kept |-> TRUE,
    frozen |-> TRUE, once |-> TRUE, roll |-> TRUE, reset |-> TRUE ]

GhInit ==
  [ lastDown |-> -1, clean |-> TRUE, untouched |-> TRUE, nCorr |-> 0,
    typing |-> FreshTyping,
    sc |-> NoShortcut, rep |-> NoRepeat, inp |-> NoLate, life |-> LifeInit ]

IsAccepted(ke) == ~ke.repeat /\ ~HasModifier(ke)

\* What the observer has captured: everything but its listening state.
Capture(o) == [o EXCEPT !.listening = FALSE, !.attached = 0]

\* The captured data as getState() shows it: the buffers by their contents.
View(o, cfg) ==
  [Capture(o) EXCEPT !.dwells = BufToArray(@, cfg.windowSize),
                     !.flights = BufToArray(@, cfg.windowSize)]

\* An event delivered while the caller holds the observer stopped must leave
\* it as it was (frozen); an event runs its handler once (once): o is the
\* observer before the event, o2 after it, single after one run of the handler.
LifeEvent(l, o, o2, single) ==
  [l EXCEPT !.frozen = @ /\ (l.halted => o2 = o),
            !.once = @ /\ o2 = single]

\* A keydown: an accepted one counts a rollover, and pushes no flight, exactly
\* when a key was active before it (roll).
LifeKeyDown(l, o, o2, single, ke) ==
  [LifeEvent(l, o, o2, single) EXCEPT
     !.roll = @ /\ (IsAccepted(ke) =>
                      IF o.activeKeys > 0
                        THEN o2.rollovers = o.rollovers + 1 /\ o2.flights = o.flights
                        ELSE o2.rollovers = o.rollovers)]

GhKeyDown(g, o, h, t, ke) ==
  [ lastDown |-> t,
    clean |-> g.clean /\ ~ke.repeat /\ t > 0,
    untouched |-> FALSE,
    nCorr |-> IF IsCorrectionKey(ke.key) THEN g.nCorr + 1 ELSE g.nCorr,
    typing |-> IF g.typing.ok /\ IsAccepted(ke) /\ h = <<>> /\ t > 0
                 THEN [g.typing EXCEPT
                         !.downAt = t,
                         !.flights = IF g.typing.lastUp >= 0
                                       THEN Append(@, t - g.typing.lastUp)
                                       ELSE @]
                 ELSE VoidTyping,
    sc |-> IF ~HasModifier(ke) THEN NoShortcut
           ELSE IF g.sc.on
             THEN [g.sc EXCEPT !.n = IF ke.repeat THEN @ ELSE @ + 1,
                               !.rep = @ \/ ke.repeat]
           ELSE IF ~ke.repeat
             THEN [on |-> TRUE, rep |-> FALSE, fresh |-> g.untouched /\ h = <<>>,
                   n |-> 1, snap |-> Timing(o)]
           ELSE NoShortcut,
    rep |-> IF IsAccepted(ke)
              THEN [phase |-> "pressed", t0 |-> t, t1 |-> -1,
                    fresh |-> g.untouched /\ h = <<>>, snap |-> <<>>]
            ELSE IF ke.repeat /\ g.rep.phase = "pressed"
              THEN [g.rep EXCEPT !.phase = "repeating", !.snap = Timing(o)]
            ELSE IF ke.repeat /\ g.rep.phase = "repeating"
              THEN g.rep
            ELSE NoRepeat,
    inp |-> IF g.inp.late /\ IsAccepted(ke)
              THEN [g.inp EXCEPT !.last = "keydown", !.before = o.flights]
              ELSE Other(g.inp),
    life |-> g.life ]

\* The keyup of the i-th held key (i = 0: of a key that is not in held).
GhKeyUp(g, o, h, t, i) ==
  [ lastDown |-> g.lastDown,
    clean |-> g.clean /\ i > 0,
    untouched |-> FALSE,
    nCorr |-> g.nCorr,
    typing |-> IF g.typing.ok /\ i > 0
                 THEN [g.typing EXCEPT !.dwells = Append(@, t - g.typing.downAt),
                                       !.downAt = -1,
                                       !.lastUp = t]
                 ELSE VoidTyping,
    sc |-> IF g.sc.on /\ i > Len(h) - g.sc.n
             THEN [g.sc EXCEPT !.n = @ - 1]
             ELSE NoShortcut,
    rep |-> IF g.rep.phase = "repeating"
              THEN [g.rep EXCEPT !.phase = "released", !.t1 = t]
              ELSE NoRepeat,
    inp |-> NoLate,
    life |-> g.life ]

GhPaste(g) ==
  [g EXCEPT !.inp = Other(@)]

GhInput(g, o, t) ==
  [g EXCEPT
     !.clean = FALSE,
     !.typing = VoidTyping,
     !.sc = NoShortcut,
     !.rep = NoRepeat,
     !.inp = IF g.lastDown < 0 THEN Other(@)
             ELSE IF t - g.lastDown > 50
               THEN [late |-> TRUE, hadRelease |-> o.lastReleaseTime > 0,
                     last |-> "late", before |-> o.inputWithoutKeystrokeCount]
             ELSE [@ EXCEPT !.last = "early", !.before = o]]

\* start(), which took the observer from o to o2.
GhStart(g, o, o2) ==
  [g EXCEPT !.life = [@ EXCEPT !.halted = FALSE,
                               !.noop = @ /\ (~g.life.halted => o2 = o)]]

\* stop(), which took the observer from o to o2.
GhStop(g, o, o2) ==
  [g EXCEPT !.clean = FALSE, !.typing = VoidTyping, !.sc = NoShortcut,
            !.rep = NoRepeat, !.inp = Other(@),
            !.life = [@ EXCEPT !.halted = TRUE,
                               !.noop = @ /\ (g.life.halted => o2 = o),
                               !.kept = @ /\ Capture(o2) = Capture(o)]]

\* clear(), which took the observer from o to o2.
GhClear(g, h, o, o2, cfg) ==
  [ lastDown |-> -1, clean |-> h = <<>>, untouched |-> TRUE, nCorr |-> 0,
    typing |-> IF h = <<>> THEN FreshTyping ELSE VoidTyping,
    sc |-> NoShortcut, rep |-> NoRepeat, inp |-> NoLate,
    life |-> [g.life EXCEPT
                !.pasted = FALSE,
                !.reset = /\ @
                          /\ View(o2, cfg) = View(createObserver(cfg), cfg)
                          /\ o2.listening = o.listening
                          /\ o2.attached = o.attached] ]

\* No computeScore since construction or reset().
NotComputed == [n |-> -1, typed |-> -1]

\* What a computeScore finds: n, the length of the dwell buffer; typed, the
\* number of keystrokes typed one after the other when nothing else has
\* happened and no key is down (-1 otherwise).
AtCompute(o, g) ==
  [ n |-> BufLength(o.dwells),
    typed |-> IF g.typing.ok /\ g.typing.downAt < 0 THEN Len(g.typing.dwells) ELSE -1 ]

\* hist: unserved: the keyups the facade captured since the latest
\* computeScore; runsSinceKeyup: the deferred callbacks run since the latest
\* captured keyup; lastBatch: the keyups the latest deferred callback served;
\* doomed: the handles that were pending at a stop(); firedAfterStop: the
\* callback of one of them has run; quiet: reset() or destroy() has returned
\* and since then the facade has captured no keyup and analyze() was not
\* called; cancelled: that reset() or destroy() found a request pending;
\* ranInQuiet: a deferred callback has run while quiet; atCompute: what the
\* latest computeScore since construction or reset() found; analyzeCalls: the
\* calls of analyze() on a facade that was given an onScore callback.
HistInit ==
  [ unserved |-> 0, runsSinceKeyup |-> 0, lastBatch |-> 0, doomed |-> {},
    firedAfterStop |-> FALSE, quiet |-> FALSE, cancelled |-> FALSE,
    ranInQuiet |-> FALSE, atCompute |-> NotComputed, analyzeCalls |-> 0 ]

\* The handles of the host's pending callbacks.
Pending(h) == h.idle \cup {tm.id : tm \in h.timers}

\* The observer as constructed, before any event.
ObsIdle ==
  /\ config = [windowSize |-> WindowSize, recordEvents |-> FALSE]
  /\ obs = createObserver(config)
  /\ now = 0
  /\ held = <<>>
  /\ nEvents = 0
  /\ gh = GhInit

\* The facade as constructed, for the configuration ccfg.
CadIdle(ccfg) ==
  /\ cadConfig = ccfg
  /\ cad = createCadence
  /\ host = NoCallbacks
  /\ hist = HistInit

\* The classification layer as constructed with the thresholds th: no sample
\* yet (n = 0; prev and score are the classification before the latest sample
\* and that sample).
ClfIdle(th) ==
  clf = [ th |-> th, state |-> createClassifier, prev |-> createClassifier,
          score |-> 0, n |-> 0 ]

\* The place of a result before analyze is called.
NoResult ==
  [ score |-> 0, metrics |-> [k \in {keys[i] : i \in 1..Len(keys)} |-> 0],
    sampleCount |-> 0, confident |-> FALSE ]

\* An analyzer as constructed with the configuration acfg, and the arguments
\* args = [dwells, flights, corrections, rollovers, total, lib] of its next
\* call; once called is TRUE, out is the result of the latest call and raw
\* the raw scores from which it was made; rescaled is what the
\* scoreCorrectionRatio of src/src/analyzer.ts returns in that call.
AnIdle(acfg, args) ==
  an = [ cfg |-> acfg, args |-> args, called |-> FALSE, out |-> NoResult,
         raw |-> NoResult.metrics, rescaled |-> 0 ]

\* The arguments of an analyze on an observer without events.
NoArgs ==
  [ dwells |-> <<>>, flights |-> <<>>, corrections |-> 0, rollovers |-> 0,
    total |-> 0, lib |-> ShortLib ]

\* A call of detectSpoof to come, on the flights and their logarithms; out
\* is the place of its result.
SpIdle(flights, logged) ==
  sp = [ flights |-> flights, logged |-> logged, called |-> FALSE,
         out |-> [ genuineScore |-> 0, logNormality |-> 0, uniformity |-> 0,
                   serialCorrelation |-> 0 ] ]

\* The layers beside the facade, as constructed with their defaults.
FnIdle ==
  /\ ClfIdle(DEFAULT_CLASSIFICATION_THRESHOLDS)
  /\ AnIdle([minSamples |-> MinSamples, weights |-> DEFAULT_WEIGHTS], NoArgs)
  /\ SpIdle(<<>>, <<>>)

\* ------------------------------------------------------------------ events

Budget == nEvents < MaxEvents

\* An event reached a listener, or a method was called: it is counted.
Count == nEvents' = nEvents + 1

RemoveAt(s, i) == SubSeq(s, 1, i - 1) \o SubSeq(s, i + 1, Len(s))

\* The clock advances, as long as something can still happen at the later time.
Tick ==
  /\ now < MaxTicks * TickMs
  /\ Budget \/ host.timers # {}
  /\ now' = now + TickMs
  /\ UNCHANGED <<rbVars, fnVars, config, obs, held, nEvents, gh, cadVars>>

\* dispatchEvent(keydown): only the observer listens for it; without a
\* listener the event changes nothing.
KeyDown(ke) ==
  /\ Budget
  /\ obs.attached > 0
  /\ ~ke.repeat => Len(held) < MaxHeld
  /\ ~ke.isTrusted => obs.syntheticEvents < MaxCount
  /\ obs' = Dispatch(obs, onKeyDown(obs, config, now, ke),
                        onKeyDown(onKeyDown(obs, config, now, ke), config, now, ke))
  /\ held' = IF ~ke.repeat
               THEN Append(held, IF HasModifier(ke) THEN "filtered" ELSE "accepted")
               ELSE held
  /\ gh' = [GhKeyDown(gh, obs, held, now, ke) EXCEPT
              !.life = LifeKeyDown(gh.life, obs, obs', onKeyDown(obs, config, now, ke), ke)]
  /\ Count
  /\ UNCHANGED <<rbVars, fnVars, config, now, cadVars>>

\* dispatchEvent(keyup): the observer's listener runs first (attached first),
\* then the facade's.
DispatchKeyUp ==
  /\ obs' = Dispatch(obs, onKeyUp(obs, config, now),
                        onKeyUp(onKeyUp(obs, config, now), config, now))
  /\ LET ch == IF cad.keystrokeListener
                 THEN onKeystroke([c |-> cad, h |-> host], cadConfig, now)
                 ELSE [c |-> cad, h |-> host]
     IN  /\ cad' = ch.c
         /\ host' = ch.h
  /\ hist' = IF cad.keystrokeListener
               THEN [hist EXCEPT !.unserved = @ + 1, !.runsSinceKeyup = 0,
                                 !.quiet = FALSE, !.cancelled = FALSE]
               ELSE hist
  /\ UNCHANGED <<rbVars, fnVars, config, now, cadConfig>>

\* The keyup of the i-th key that is held, delivered to the listeners.
KeyUpHeld(i) ==
  /\ Budget
  /\ obs.attached > 0
  /\ i \in 1..Len(held)
  /\ DispatchKeyUp
  /\ held' = RemoveAt(held, i)
  /\ gh' = [GhKeyUp(gh, obs, held, now, i) EXCEPT
              !.life = LifeEvent(gh.life, obs, obs', onKeyUp(obs, config, now))]
  /\ Count

\* The i-th key that is held is released while nothing listens.
KeyUpUnheard(i) ==
  /\ obs.attached = 0
  /\ i \in 1..Len(held)
  /\ held' = RemoveAt(held, i)
  /\ UNCHANGED <<rbVars, fnVars, config, obs, now, nEvents, gh, cadVars>>

\* The keyup of a key whose keydown the observer did not get.
KeyUpStray ==
  /\ Budget
  /\ obs.attached > 0
  /\ DispatchKeyUp
  /\ UNCHANGED held
  /\ gh' = [GhKeyUp(gh, obs, held, now, 0) EXCEPT
              !.life = LifeEvent(gh.life, obs, obs', onKeyUp(obs, config, now))]
  /\ Count

\* dispatchEvent(paste)
Paste ==
  /\ Budget
  /\ obs.attached > 0
  /\ obs' = Dispatch(obs, onPaste(obs), onPaste(onPaste(obs)))
  /\ gh' = [GhPaste(gh) EXCEPT
              !.life = [LifeEvent(gh.life, obs, obs', onPaste(obs)) EXCEPT
                          !.pasted = TRUE]]
  /\ Count
  /\ UNCHANGED <<rbVars, fnVars, config, now, held, cadVars>>

\* dispatchEvent(input)
Input ==
  /\ Budget
  /\ obs.attached > 0
  /\ obs.inputWithoutKeystrokeCount < MaxCount
  /\ obs' = Dispatch(obs, onInput(obs, now), onInput(onInput(obs, now), now))
  /\ gh' = [GhInput(gh, obs, now) EXCEPT
              !.life = LifeEvent(gh.life, obs, obs', onInput(obs, now))]
  /\ Count
  /\ UNCHANGED <<rbVars, fnVars, config, now, held, cadVars>>

\* -------------------------------------------------- the observer's methods

ObsStart ==
  /\ obs' = originalStart(obs)
  /\ gh' = GhStart(gh, obs, obs')
  /\ UNCHANGED <<rbVars, fnVars, config, now, held, nEvents, cadVars>>

ObsStop ==
  /\ Budget
  /\ obs' = originalStop(obs)
  /\ gh' = GhStop(gh, obs, obs')
  /\ Count
  /\ UNCHANGED <<rbVars, fnVars, config, now, held, cadVars>>

ObsClear ==
  /\ Budget
  /\ obs' = clear(obs, config)
  /\ gh' = GhClear(gh, held, obs, obs', config)
  /\ Count
  /\ UNCHANGED <<rbVars, fnVars, config, now, held, cadVars>>

ObsDestroy ==
  /\ Budget
  /\ obs' = observerDestroy(obs, config)
  /\ gh' = GhClear(GhStop(gh, obs, originalStop(obs)), held, originalStop(obs), obs', config)
  /\ Count
  /\ UNCHANGED <<rbVars, fnVars, config, now, held, cadVars>>

ObsInit ==
  /\ rbCap = 1
  /\ rb = createBuffer(rbCap)
  /\ rbPushed = <<>>
  /\ rbCleared = FALSE
  /\ ObsIdle
  /\ CadIdle([scheduling |-> "manual", hasRIC |-> TRUE, minSamples |-> MinSamples,
              onScore |-> FALSE])
  /\ FnIdle

ObsNext ==
  \/ Tick
  \/ \E ke \in KeyEvents : KeyDown(ke)
  \/ \E i \in 1..MaxHeld : KeyUpHeld(i)
  \/ \E i \in 1..MaxHeld : KeyUpUnheard(i)
  \/ KeyUpStray
  \/ Paste
  \/ Input
  \/ ObsStart
  \/ ObsStop
  \/ ObsClear
  \/ ObsDestroy

\* The observer on its own.
Spec == ObsInit /\ [][ObsNext]_vars

\* The observer constructed with recordEvents: true.
EvInit ==
  /\ rbCap = 1
  /\ rb = createBuffer(rbCap)
  /\ rbPushed = <<>>
  /\ rbCleared = FALSE
  /\ config = [windowSize |-> WindowSize, recordEvents |-> TRUE]
  /\ obs = createObserver(config)
  /\ now = 0
  /\ held = <<>>
  /\ nEvents = 0
  /\ gh = GhInit
  /\ CadIdle([scheduling |-> "manual", hasRIC |-> TRUE, minSamples |-> MinSamples,
              onScore |-> FALSE])
  /\ FnIdle

\* Typing on it: plain and Backspace keydowns, keyups in any order, clear.
EvNext ==
  \/ Tick
  \/ \E key \in {"a", "Backspace"} : KeyDown(KeyEvent(key, FALSE, NoModifier, TRUE))
  \/ \E i \in 1..MaxHeld : KeyUpHeld(i)
  \/ KeyUpStray
  \/ ObsStart
  \/ ObsClear

SpecEvents == EvInit /\ [][EvNext]_vars

\* ----------------------------------------------------- the facade's methods

\* cadence.start(): the observer's start, then the facade's keyup listener.
CadStart ==
  /\ obs' = originalStart(obs)
  /\ cad' = start(cad)
  /\ gh' = GhStart(gh, obs, obs')
  /\ UNCHANGED <<rbVars, fnVars, config, now, held, nEvents, cadConfig, host, hist>>

\* cadence.stop(): the observer's stop, then the facade's listener removed.
\* A pending callback stays pending.
CadStop ==
  /\ Budget
  /\ obs' = originalStop(obs)
  /\ cad' = stop(cad)
  /\ gh' = GhStop(gh, obs, obs')
  /\ hist' = [hist EXCEPT !.doomed = @ \cup Pending(host)]
  /\ Count
  /\ UNCHANGED <<rbVars, fnVars, config, now, held, cadConfig, host>>

\* cadence.analyze(): computeScore now.
CadAnalyze ==
  /\ Budget
  /\ cad' = computeScore(cad, obs, cadConfig)
  /\ hist' = [hist EXCEPT !.unserved = 0, !.quiet = FALSE, !.cancelled = FALSE,
                          !.atCompute = AtCompute(obs, gh),
                          !.analyzeCalls = IF cadConfig.onScore THEN @ + 1 ELSE @]
  /\ Count
  /\ UNCHANGED <<rbVars, fnVars, config, obs, now, held, gh, cadConfig, host>>

\* cadence.reset(): the observer cleared, then the facade's part.
CadReset ==
  /\ Budget
  /\ obs' = clear(obs, config)
  /\ LET ch == reset([c |-> cad, h |-> host])
     IN  /\ cad' = ch.c
         /\ host' = ch.h
  /\ gh' = GhClear(gh, held, obs, obs', config)
  /\ hist' = [hist EXCEPT !.unserved = 0, !.quiet = TRUE,
                          !.cancelled = Pending(host) # {},
                          !.atCompute = NotComputed]
  /\ Count
  /\ UNCHANGED <<rbVars, fnVars, config, now, held, cadConfig>>

\* cadence.destroy(): stop() then reset().
CadDestroy ==
  /\ Budget
  /\ obs' = clear(originalStop(obs), config)
  /\ LET ch == reset([c |-> stop(cad), h |-> host])
     IN  /\ cad' = ch.c
         /\ host' = ch.h
  /\ gh' = GhClear(GhStop(gh, obs, originalStop(obs)), held, originalStop(obs), obs', config)
  /\ hist' = [hist EXCEPT !.unserved = 0, !.doomed = @ \cup Pending(host),
                          !.quiet = TRUE, !.cancelled = Pending(host) # {},
                          !.atCompute = NotComputed]
  /\ Count
  /\ UNCHANGED <<rbVars, fnVars, config, now, held, cadConfig>>

\* The deferred callback of the request `handle` has run.
Served(handle) ==
  [hist EXCEPT !.unserved = 0,
               !.runsSinceKeyup = @ + 1,
               !.lastBatch = hist.unserved,
               !.firedAfterStop = @ \/ handle \in hist.doomed,
               !.ranInQuiet = @ \/ hist.quiet,
               !.atCompute = AtCompute(obs, gh)]

\* The host runs a pending idle callback: idleHandle = undefined, computeScore.
FireIdle(handle) ==
  /\ handle \in host.idle
  /\ host' = [host EXCEPT !.idle = @ \ {handle}]
  /\ cad' = computeScore([cad EXCEPT !.idleHandle = 0], obs, cadConfig)
  /\ hist' = Served(handle)
  /\ UNCHANGED <<rbVars, fnVars, obsVars, cadConfig>>

\* The host runs a timer that is due: timeoutHandle = undefined, computeScore.
FireTimeout(tm) ==
  /\ tm \in host.timers
  /\ now >= tm.due
  /\ host' = [host EXCEPT !.timers = @ \ {tm}]
  /\ cad' = computeScore([cad EXCEPT !.timeoutHandle = 0], obs, cadConfig)
  /\ hist' = Served(tm.id)
  /\ UNCHANGED <<rbVars, fnVars, obsVars, cadConfig>>

\* The configurations of the facade: idle scheduling on a host with and without
\* requestIdleCallback, and manual scheduling.
CadConfigs ==
  { [scheduling |-> "idle", hasRIC |-> TRUE, minSamples |-> MinSamples,
     onScore |-> FALSE],
    [scheduling |-> "idle", hasRIC |-> FALSE, minSamples |-> MinSamples,
     onScore |-> FALSE],
    [scheduling |-> "manual", hasRIC |-> TRUE, minSamples |-> MinSamples,
     onScore |-> TRUE] }

CadInit ==
  /\ rbCap = 1
  /\ rb = createBuffer(rbCap)
  /\ rbPushed = <<>>
  /\ rbCleared = FALSE
  /\ ObsIdle
  /\ \E ccfg \in CadConfigs : CadIdle(ccfg)
  /\ FnIdle

CadNext ==
  \/ Tick
  \/ KeyDown(KeyEvent("a", FALSE, NoModifier, TRUE))
  \/ \E i \in 1..MaxHeld : KeyUpHeld(i)
  \/ \E i \in 1..MaxHeld : KeyUpUnheard(i)
  \/ KeyUpStray
  \/ Paste
  \/ CadStart
  \/ CadStop
  \/ CadAnalyze
  \/ CadReset
  \/ CadDestroy
  \/ \E handle \in host.idle : FireIdle(handle)
  \/ \E tm \in host.timers : FireTimeout(tm)

\* The facade over the observer, with the host's scheduler.
SpecCadence == CadInit /\ [][CadNext]_vars

\* The facade with 'idle' scheduling, on a host with and without
\* requestIdleCallback.
LiveInit ==
  /\ rbCap = 1
  /\ rb = createBuffer(rbCap)
  /\ rbPushed = <<>>
  /\ rbCleared = FALSE
  /\ ObsIdle
  /\ \E ccfg \in {c \in CadConfigs : c.scheduling = "idle"} : CadIdle(ccfg)
  /\ FnIdle

\* Time passes: the clock goes on beyond the ticks explored for as long as a
\* timer is pending that is not yet due.
LiveTick ==
  /\ \/ now < MaxTicks * TickMs /\ Budget
     \/ \E tm \in host.timers : now < tm.due
  /\ now' = now + TickMs
  /\ UNCHANGED <<rbVars, fnVars, config, obs, held, nEvents, gh, cadVars>>

\* The host runs a deferred callback that is pending and due.
FireDeferred ==
  \/ \E handle \in host.idle : FireIdle(handle)
  \/ \E tm \in host.timers : FireTimeout(tm)

LiveNext ==
  \/ LiveTick
  \/ KeyDown(KeyEvent("a", FALSE, NoModifier, TRUE))
  \/ \E i \in 1..MaxHeld : KeyUpHeld(i)
  \/ CadStart
  \/ CadStop
  \/ CadAnalyze
  \/ CadReset
  \/ FireDeferred

\* The facade with a host that runs a pending callback in the end (an idle
\* callback at the latest at its timeout, a timer when it is due), and a clock
\* that goes on.
SpecCadenceLive ==
  LiveInit /\ [][LiveNext]_vars /\ WF_vars(LiveTick) /\ WF_vars(FireDeferred)

\* The facade constructed with a window narrower than minSamples
\* (createCadence hands windowSize to the observer and minSamples to the
\* analyzer, and compares neither with the other).
NarrowInit ==
  /\ rbCap = 1
  /\ rb = createBuffer(rbCap)
  /\ rbPushed = <<>>
  /\ rbCleared = FALSE
  /\ \E w \in 1..(MinSamples - 1) :
        config = [windowSize |-> w, recordEvents |-> FALSE]
  /\ obs = createObserver(config)
  /\ now = 0
  /\ held = <<>>
  /\ nEvents = 0
  /\ gh = GhInit
  /\ \E ccfg \in CadConfigs : CadIdle(ccfg)
  /\ FnIdle

NarrowNext ==
  \/ Tick
  \/ KeyDown(KeyEvent("a", FALSE, NoModifier, TRUE))
  \/ \E i \in 1..MaxHeld : KeyUpHeld(i)
  \/ CadStart
  \/ CadAnalyze
  \/ CadReset
  \/ \E handle \in host.idle : FireIdle(handle)
  \/ \E tm \in host.timers : FireTimeout(tm)

SpecNarrow == NarrowInit /\ [][NarrowNext]_vars

\* ------------------------------------------------- stand-alone ring buffer

RbInit ==
  /\ rbCap \in 1..MaxCap
  /\ rb = createBuffer(rbCap)
  /\ rbPushed = <<>>
  /\ rbCleared = FALSE
  /\ ObsIdle
  /\ CadIdle([scheduling |-> "manual", hasRIC |-> TRUE, minSamples |-> MinSamples,
              onScore |-> FALSE])
  /\ FnIdle

RbPush(v) ==
  /\ Len(rbPushed) < MaxPushes
  /\ rb' = BufPush(rb, rbCap, v)
  /\ rbPushed' = Append(rbPushed, v)
  /\ UNCHANGED <<rbCap, rbCleared>>
  /\ UNCHANGED <<obsVars, cadVars, fnVars>>

RbClear ==
  /\ rb' = BufClear(rb)
  /\ rbPushed' = <<>>
  /\ rbCleared' = TRUE
  /\ UNCHANGED rbCap
  /\ UNCHANGED <<obsVars, cadVars, fnVars>>

RbNext ==
  \/ \E v \in 1..MaxValue : RbPush(v)
  \/ RbClear

SpecBuffer == RbInit /\ [][RbNext]_vars

\* ------------------------------------------------- the classification layer

\* Number of samples classified between two resets.
MaxSamples == 3

\* The scores sampled: the ends of the range and both sides of every
\* threshold of both threshold sets.
ClfScores == {0, 29, 30, 34, 35, 39, 40, 44, 45, 59, 60, 64, 65, 69, 70, 74, 75, 100}

ClfInit ==
  /\ rbCap = 1
  /\ rb = createBuffer(rbCap)
  /\ rbPushed = <<>>
  /\ rbCleared = FALSE
  /\ ObsIdle
  /\ CadIdle([scheduling |-> "manual", hasRIC |-> TRUE, minSamples |-> MinSamples,
              onScore |-> FALSE])
  /\ \E th \in {DEFAULT_CLASSIFICATION_THRESHOLDS, CustomThresholds} : ClfIdle(th)
  /\ AnIdle([minSamples |-> MinSamples, weights |-> DEFAULT_WEIGHTS], NoArgs)
  /\ SpIdle(<<>>, <<>>)

\* A score is sampled and classified.
ClfSample(score) ==
  /\ clf.n < MaxSamples
  /\ clf' = [clf EXCEPT !.state = classify(clf.state, score, clf.th),
                        !.prev = clf.state,
                        !.score = score,
                        !.n = @ + 1]
  /\ UNCHANGED <<rbVars, obsVars, cadVars, an, sp>>

\* The classification is reset.
ClfReset ==
  /\ clf' = [clf EXCEPT !.state = createClassifier, !.prev = createClassifier,
                        !.score = 0, !.n = 0]
  /\ UNCHANGED <<rbVars, obsVars, cadVars, an, sp>>

ClfNext ==
  \/ \E score \in ClfScores : ClfSample(score)
  \/ ClfReset

SpecClassify == ClfInit /\ [][ClfNext]_vars

\* ------------------------------------------------- the stand-alone analyzer

\* Most dwell samples and most flight samples handed to analyze.
MaxDwells == 5

MaxFlights == 10

\* Largest corrections, rollovers and total handed to analyze.
MaxCorrections == 2

MaxRollovers == 1

MaxTotal == 10

\* n samples from base, each step ms above the one before.
Ramp(n, base, step) == [i \in 1..n |-> base + step * (i - 1)]

\* Dwell arrays: none, one sample short of the gate of the dwell metric and
\* at or above it; constant or spread.
DwellArrays ==
  { Ramp(n, 50, step) : n \in {0, MaxDwells - 1, MaxDwells}, step \in {0, 20} }

\* Flight arrays: none, one short of the gate of the flight metrics, at that
\* gate, and at or above the gate of burst regularity; constant at 100 ms
\* (no burst gap), constant at 30 ms (below the floor of the inter-key
\* interval), spread from 40 ms in steps of 70 ms (several burst gaps), and
\* spread from a flight of 0 ms; and in steps of 10 ms across the floor, from
\* 15 ms (half of ten below the floor), from 5 ms (six of ten below) and from
\* 35 ms (three of five below).
FlightArrays ==
  { Ramp(n, 100, 0) : n \in {0, MIN_FLIGHT_SAMPLES - 1, MIN_FLIGHT_SAMPLES, MaxFlights} }
    \cup { Ramp(n, 30, 0) : n \in {MIN_FLIGHT_SAMPLES, MaxFlights} }
    \cup { Ramp(n, 40, 70) : n \in {MIN_FLIGHT_SAMPLES, MaxFlights} }
    \cup { Ramp(MaxFlights, 0, 80) }
    \cup { Ramp(MaxFlights, 15, 10), Ramp(MaxFlights, 5, 10), Ramp(MIN_FLIGHT_SAMPLES, 35, 10) }

\* What the library returns for five flights or more: a good log-normal fit
\* with serial correlation at medium entropy, a uniform fit without
\* correlation at the highest entropy of ten bins, and the degenerate fits of
\* a constant interval at no entropy.
Libs ==
  { [ fit |-> [logNormality |-> One, uniformity |-> 0, corrScore |-> One],
      entropy |-> 2500 ],
    [ fit |-> [logNormality |-> 200, uniformity |-> One, corrScore |-> 0],
      entropy |-> 3321 ],
    [ fit |-> [logNormality |-> 0, uniformity |-> 0, corrScore |-> 0],
      entropy |-> 0 ] }

\* The library's results that go with an array of flights.
LibsOf(flights) ==
  IF Len(flights) < MIN_FLIGHT_SAMPLES THEN {ShortLib} ELSE Libs

\* Weights: the defaults; correctionRatio alone and rolloverRate alone, as
\* in the analyzer's tests; the three metrics that can be gated alone, with
\* weights above 1; and no weight at all.
WeightSets ==
  { DEFAULT_WEIGHTS,
    [ dwellVariance |-> 0, flightFit |-> 0, timingEntropy |-> 0,
      correctionRatio |-> One, burstRegularity |-> 0, rolloverRate |-> 0 ],
    [ dwellVariance |-> 0, flightFit |-> 0, timingEntropy |-> 0,
      correctionRatio |-> 0, burstRegularity |-> 0, rolloverRate |-> One ],
    [ dwellVariance |-> 0, flightFit |-> 0, timingEntropy |-> 0,
      correctionRatio |-> 2 * One, burstRegularity |-> 3 * One, rolloverRate |-> One ],
    [ dwellVariance |-> 0, flightFit |-> 0, timingEntropy |-> 0,
      correctionRatio |-> 0, burstRegularity |-> 0, rolloverRate |-> 0 ] }

AnInit ==
  /\ rbCap = 1
  /\ rb = createBuffer(rbCap)
  /\ rbPushed = <<>>
  /\ rbCleared = FALSE
  /\ ObsIdle
  /\ CadIdle([scheduling |-> "manual", hasRIC |-> TRUE, minSamples |-> MinSamples,
              onScore |-> FALSE])
  /\ ClfIdle(DEFAULT_CLASSIFICATION_THRESHOLDS)
  /\ \E dwells \in DwellArrays, flights \in FlightArrays,
        corrections \in 0..MaxCorrections, rollovers \in 0..MaxRollovers,
        total \in 0..MaxTotal :
       \E lib \in LibsOf(flights) :
         AnIdle([minSamples |-> MaxDwells, weights |-> DEFAULT_WEIGHTS],
                [ dwells |-> dwells, flights |-> flights,
                  corrections |-> corrections, rollovers |-> rollovers,
                  total |-> total, lib |-> lib ])
  /\ SpIdle(<<>>, <<>>)

\* analyzer.analyze(...) on the arguments.
AnAnalyze ==
  /\ ~an.called
  /\ an' = [an EXCEPT
              !.out = analyze(an.cfg, an.args.dwells, an.args.flights,
                              an.args.corrections, an.args.rollovers,
                              an.args.total, an.args.lib),
              !.raw = rawScores(an.args.dwells, an.args.flights,
                                an.args.corrections, an.args.rollovers,
                                an.args.total, an.args.lib),
              !.rescaled = scoreCorrectionRatioRescaled(an.args.corrections,
                                                        an.args.total),
              !.called = TRUE]
  /\ UNCHANGED <<rbVars, obsVars, cadVars, clf, sp>>

\* createAnalyzer with other weights, for the same arguments.
AnCreate(weights) ==
  /\ weights # an.cfg.weights
  /\ an' = [an EXCEPT !.cfg.weights = weights, !.called = FALSE, !.out = NoResult,
                       !.raw = NoResult.metrics, !.rescaled = 0]
  /\ UNCHANGED <<rbVars, obsVars, cadVars, clf, sp>>

AnNext ==
  \/ AnAnalyze
  \/ \E weights \in WeightSets : AnCreate(weights)

SpecAnalyzer == AnInit /\ [][AnNext]_vars

\* ------------------------------------------------- stand-alone detectSpoof

\* The intervals held constant, as doubles, each with its Math.log: 100 ms,
\* 100.1 ms, 16.7 ms, 250.5 ms, 120.3 ms and 33.4 ms.
Intervals ==
  { [ x |-> Double(104857600, 0, 0 - 46), log |-> Double(77261934, 62215446, 0 - 50) ],
    [ x |-> Double(104962457, 40265318, 0 - 46), log |-> Double(77278703, 51006937, 0 - 50) ],
    [ x |-> Double(70044876, 53687091, 0 - 48), log |-> Double(94469440, 28727720, 0 - 51) ],
    [ x |-> Double(131334144, 0, 0 - 45), log |-> Double(92668263, 25284835, 0 - 50) ],
    [ x |-> Double(126143692, 53687091, 0 - 46), log |-> Double(80362673, 51357652, 0 - 50) ],
    [ x |-> Double(70044876, 53687091, 0 - 47), log |-> Double(117727600, 24438819, 0 - 50) ] }

SpInit ==
  /\ rbCap = 1
  /\ rb = createBuffer(rbCap)
  /\ rbPushed = <<>>
  /\ rbCleared = FALSE
  /\ ObsIdle
  /\ CadIdle([scheduling |-> "manual", hasRIC |-> TRUE, minSamples |-> MinSamples,
              onScore |-> FALSE])
  /\ ClfIdle(DEFAULT_CLASSIFICATION_THRESHOLDS)
  /\ AnIdle([minSamples |-> MinSamples, weights |-> DEFAULT_WEIGHTS], NoArgs)
  /\ \E c \in Intervals, n \in 0..MaxFlights :
       SpIdle([i \in 1..n |-> c.x], [i \in 1..n |-> c.log])

\* detectSpoof(flights)
SpDetect ==
  /\ ~sp.called
  /\ sp' = [sp EXCEPT !.out = detectSpoofOn(sp.flights, sp.logged), !.called = TRUE]
  /\ UNCHANGED <<rbVars, obsVars, cadVars, clf, an>>

SpNext == SpDetect

SpecSpoof == SpInit /\ [][SpNext]_vars

\* C1: after any sequence of push() and clear() calls on a buffer of capacity
\* C >= 1, toArray() is the last min(k, C) values pushed since the most recent
\* clear, oldest first, and length = min(k, C) <= C.
C1_SlidingWindow ==
  /\ BufToArray(rb, rbCap) = LastN(rbPushed, rbCap)
  /\ BufLength(rb) = Min(Len(rbPushed), rbCap)
  /\ BufLength(rb) <= rbCap

\* C1 witness: after a clear, the buffer has wrapped around more than once.
C1_Witness ==
  /\ rbCleared
  /\ rbCap >= 2
  /\ Len(rbPushed) > 2 * rbCap

\* ------------------------------------------------------------ the observer

\* What a keystroke leaves in the record: the two buffers and total.
Recorded(o) == [dwells |-> o.dwells, flights |-> o.flights, total |-> o.total]

\* The observer o with its timing state put back to the snapshot snap.
Restore(o, snap) ==
  [o EXCEPT !.dwells = snap.dwells, !.flights = snap.flights,
            !.total = snap.total, !.lastPressTime = snap.lastPressTime,
            !.lastReleaseTime = snap.lastReleaseTime,
            !.activeKeys = snap.activeKeys,
            !.pendingFilteredUps = snap.pendingFilteredUps,
            !.hadRepeat = snap.hadRepeat]

\* A normal keystroke: an accepted keydown at t1 and its keyup at t2.
Keystroke(o, t1, t2) ==
  onKeyUp(onKeyDown(o, config, t1, KeyEvent("a", FALSE, NoModifier, TRUE)),
          config, t2)

\* The times at which a keystroke typed from now on can fall.
Later == {now + k * TickMs : k \in 0..2}

\* C2: a sequence made only of keydowns carrying a modifier and their keyups
\* leaves the dwell buffer, the flight buffer and total as they were before
\* it, and once all its keys are released a normal keystroke typed afterwards
\* is recorded exactly as it would have been without the shortcut.
C2_ModifierFiltering ==
  gh.sc.on =>
    /\ Recorded(obs) = Recorded(Restore(obs, gh.sc.snap))
    /\ gh.sc.n = 0 =>
         \A t1 \in Later : \A t2 \in Later :
           (0 < t1 /\ t1 <= t2) =>
             Recorded(Keystroke(obs, t1, t2))
               = Recorded(Keystroke(Restore(obs, gh.sc.snap), t1, t2))

\* C3: when an accepted key and a modifier-filtered key are held at the same
\* time, the keyup of the filtered key pushes no dwell sample and leaves the
\* last-release timestamp alone, and the keyup of the accepted key pushes a
\* dwell sample, in whichever order the two are released.
C3_FilteredKeyupDropped ==
  [][ \A i \in 1..MaxHeld :
        (gh.clean /\ KeyUpHeld(i)) =>
          /\ held[i] = "filtered" =>
               /\ obs'.dwells = obs.dwells
               /\ obs'.lastReleaseTime = obs.lastReleaseTime
          /\ (held[i] = "accepted" /\ \E j \in 1..Len(held) : held[j] = "filtered") =>
               obs'.dwells # obs.dwells ]_vars

\* C4: for accepted, non-overlapping keystrokes at positive times on a started
\* observer, the dwell buffer is the window over release - press of each
\* keystroke and the flight buffer the window over press - previous release
\* of each keystroke after the first; total counts the keydowns.
C4_DwellFlight ==
  gh.typing.ok =>
    /\ BufToArray(obs.dwells, config.windowSize)
         = LastN(gh.typing.dwells, config.windowSize)
    /\ BufToArray(obs.flights, config.windowSize)
         = LastN(gh.typing.flights, config.windowSize)
    /\ obs.total = Len(gh.typing.dwells) + (IF gh.typing.downAt >= 0 THEN 1 ELSE 0)

C4_Witness ==
  /\ gh.typing.ok
  /\ Len(gh.typing.dwells) = 2
  /\ Len(gh.typing.flights) = 1
  /\ gh.typing.dwells[1] > 0
  /\ gh.typing.flights[1] > 0

C6_HeldKeyDwell ==
  (gh.rep.phase = "released" /\ gh.rep.fresh
     /\ 0 < gh.rep.t0 /\ gh.rep.t0 < gh.rep.t1) =>
    /\ obs.total = 1
    /\ BufToArray(obs.dwells, config.windowSize) = <<gh.rep.t1 - gh.rep.t0>>

\* C7: corrections is the number of Backspace and Delete keydowns, filtered or
\* not, and a sequence of modifier-carrying keydowns and their keyups on an
\* observer that saw no key event before leaves dwells empty and total = 0.
C7_CorrectionCounting ==
  /\ obs.corrections = gh.nCorr
  /\ (gh.sc.on /\ gh.sc.fresh) =>
       /\ BufToArray(obs.dwells, config.windowSize) = <<>>
       /\ obs.total = 0

\* Ctrl+Backspace down, then its keyup, and nothing else.
C7_Witness ==
  /\ gh.sc.on /\ gh.sc.fresh /\ gh.sc.n = 0
  /\ nEvents = 2
  /\ gh.nCorr = 1
  /\ obs.corrections = 1

\* C8: an input event more than 50 ms after the most recent keydown sets
\* inputWithoutKeystrokes, adds 1 to inputWithoutKeystrokeCount and zeroes the
\* last-release timestamp, and the next accepted keydown then pushes no
\* flight sample; an input event within 50 ms of the most recent keydown
\* changes nothing of the observer.
C8_InputWithoutKeystroke ==
  /\ gh.inp.last = "late" =>
       /\ obs.inputWithoutKeystrokes
       /\ obs.inputWithoutKeystrokeCount = gh.inp.before + 1
  /\ gh.inp.late => obs.lastReleaseTime = 0
  /\ gh.inp.last = "keydown" => obs.flights = gh.inp.before
  /\ gh.inp.last = "early" => obs = gh.inp.before

\* A late input event that found a release timestamp, then an accepted keydown.
C8_Witness ==
  /\ gh.inp.last = "keydown"
  /\ gh.inp.hadRelease
  /\ obs.inputWithoutKeystrokeCount = 1

\* -------------------------------------------------------------- the facade

\* C9: in idle scheduling at most one deferred computation is pending, one is
\* pending whenever a captured keyup has not been served, and at most one
\* deferred callback runs after the latest captured keyup: the k keyups
\* captured before it fires are served by one recomputation.
C9_Coalescing ==
  cadConfig.scheduling = "idle" =>
    /\ Cardinality(Pending(host)) <= 1
    /\ hist.unserved > 0 => Cardinality(Pending(host)) = 1
    /\ hist.runsSinceKeyup <= 1

\* One deferred callback has served two keyups.
C9_Witness ==
  /\ cadConfig.scheduling = "idle"
  /\ hist.lastBatch >= 2
  /\ hist.runsSinceKeyup = 1
  /\ Pending(host) = {}

\* C10: the callback of a deferred computation that was pending when stop()
\* was called never runs.
C10_StopCancels == ~hist.firedAfterStop

\* C11: reset() and destroy() cancel the pending deferred computation: from
\* their return until the facade captures a keyup or analyze() is called, no
\* deferred callback runs and the stored result is the neutral one.
C11_ResetCancels ==
  /\ ~hist.ranInQuiet
  /\ hist.quiet => cad.lastResult = NeutralResult

\* reset() or destroy() found a request pending and cancelled it; the clock
\* has since reached the delay of a timer, with no keyup and no analyze().
C11_Witness ==
  /\ hist.quiet
  /\ hist.cancelled
  /\ Pending(host) = {}
  /\ now >= FALLBACK_DELAY

\* C20: every result of an analysis has sampleCount equal to the length of
\* the dwell buffer at the analysis and confident = (sampleCount >=
\* minSamples); after k keystrokes typed one after the other, k within the
\* window, confident is false for k < minSamples (so after minSamples - 1)
\* and true from the minSamples-th.
C20_Confidence ==
  hist.atCompute.n >= 0 =>
    /\ cad.lastResult.sampleCount = hist.atCompute.n
    /\ cad.lastResult.confident = (cad.lastResult.sampleCount >= cadConfig.minSamples)
    /\ ( /\ hist.atCompute.typed >= 0
         /\ hist.atCompute.typed <= config.windowSize )
       => cad.lastResult.confident = (hist.atCompute.typed >= cadConfig.minSamples)

\* The analysis after the minSamples-th keystroke typed is confident.
C20_Witness ==
  /\ hist.atCompute.typed = cadConfig.minSamples
  /\ cad.lastResult.sampleCount = cadConfig.minSamples
  /\ cad.lastResult.confident

\* -------------------------------------------------------- classification

\* The thresholds are ordered: enter-bot < exit-bot < exit-human < enter-human.
Ordered(th) ==
  /\ th.unknownToBot < th.botToUnknown
  /\ th.botToUnknown < th.humanToUnknown
  /\ th.humanToUnknown < th.unknownToHuman

\* C12: the classification starts at unknown, and after each sample: from
\* unknown it is bot iff score < enter-bot, human iff score >= enter-human,
\* unknown otherwise; from bot it is unknown iff score >= exit-bot, bot
\* otherwise; from human it is unknown iff score < exit-human, human
\* otherwise; the thresholds being ordered, the defaults 0.35 / 0.45 / 0.70 /
\* 0.60.
C12_Transition ==
  /\ Ordered(clf.th)
  /\ DEFAULT_CLASSIFICATION_THRESHOLDS =
       [ unknownToBot |-> 35, botToUnknown |-> 45,
         unknownToHuman |-> 70, humanToUnknown |-> 60 ]
  /\ clf.n = 0 => clf.state = "unknown"
  /\ clf.n > 0 =>
       /\ clf.prev = "unknown" =>
            /\ clf.state = "bot" <=> clf.score < clf.th.unknownToBot
            /\ clf.state = "human" <=> clf.score >= clf.th.unknownToHuman
            /\ clf.state = "unknown" <=>
                 /\ clf.score >= clf.th.unknownToBot
                 /\ clf.score < clf.th.unknownToHuman
       /\ clf.prev = "bot" =>
            /\ clf.state = "unknown" <=> clf.score >= clf.th.botToUnknown
            /\ clf.state = "bot" <=> clf.score < clf.th.botToUnknown
       /\ clf.prev = "human" =>
            /\ clf.state = "unknown" <=> clf.score < clf.th.humanToUnknown
            /\ clf.state = "human" <=> clf.score >= clf.th.humanToUnknown

\* The last of MaxSamples samples, exactly at enter-human, has taken unknown
\* to human.
C12_Witness ==
  /\ clf.n = MaxSamples
  /\ clf.prev = "unknown"
  /\ clf.score = clf.th.unknownToHuman
  /\ clf.state = "human"

\* C13: no single sample takes the classification from bot to human or from
\* human to bot.
C13_ThroughUnknown ==
  clf.n > 0 =>
    /\ ~(clf.prev = "bot" /\ clf.state = "human")
    /\ ~(clf.prev = "human" /\ clf.state = "bot")

\* From bot, a sample at or above enter-human has led to unknown only.
C13_Witness ==
  /\ clf.n > 0
  /\ clf.prev = "bot"
  /\ clf.score >= clf.th.unknownToHuman
  /\ clf.state = "unknown"

\* C14: from human, a sample in [exit-human, enter-human) leaves the
\* classification human.
C14_DeadZone ==
  ( /\ clf.n > 0
    /\ clf.prev = "human"
    /\ clf.score >= clf.th.humanToUnknown
    /\ clf.score < clf.th.unknownToHuman ) => clf.state = "human"

\* Human, then a sample at exit-human, the bottom of the dead zone: still human.
C14_Witness ==
  /\ clf.n > 1
  /\ clf.prev = "human"
  /\ clf.score = clf.th.humanToUnknown
  /\ clf.state = "human"

\* -------------------------------------------------------------- analyzer

\* The metrics that are not gated.
Active(raw) == {k \in DOMAIN raw : raw[k] # NO_DATA}

\* The sum of f over the keys in S.
RECURSIVE SumOver(_, _)
SumOver(f, S) ==
  IF S = {} THEN 0
  ELSE LET k == CHOOSE x \in S : TRUE
       IN  f[k] + SumOver(f, S \ {k})

\* Among the weights only that of the metric k is not zero.
OnlyWeighted(weights, k) ==
  /\ weights[k] > 0
  /\ \A j \in DOMAIN weights \ {k} : weights[j] = 0

\* C15: the composite score is the sum of weight * value over the metrics
\* that are not the sentinel, divided by the sum of the weights of those
\* metrics, clamped to [0, 1]: a sentinel metric adds nothing to either sum.
C15_Redistribution ==
  an.called =>
    LET weights == an.cfg.weights
        active == Active(an.raw)
        numerator == SumOver([k \in active |-> weights[k] * an.raw[k]], active)
        denominator == SumOver(weights, active)
    IN  denominator > 0 => an.out.score = clamp(numerator \div denominator, 0, One)

\* A weighted metric is gated, another weighted metric is not, and the
\* composite lies strictly between 0 and 1.
C15_Witness ==
  /\ an.called
  /\ \E k \in DOMAIN an.raw : an.raw[k] = NO_DATA /\ an.cfg.weights[k] > 0
  /\ \E j \in DOMAIN an.raw : an.raw[j] # NO_DATA /\ an.cfg.weights[j] > 0
  /\ an.out.score > 0
  /\ an.out.score < One

C17_GatingEquivalence ==
  an.called =>
    \A k \in DOMAIN an.raw :
      ( /\ an.raw[k] = NO_DATA
        /\ \E j \in DOMAIN an.raw \ {k} : an.cfg.weights[j] > 0 )
      => an.out.score =
           compositeScore(an.raw, [an.cfg.weights EXCEPT ![k] = 0])

\* rolloverRate is gated and weighted, other metrics are weighted and scored,
\* and the composite is above 0.
C17_Witness ==
  /\ an.called
  /\ an.raw.rolloverRate = NO_DATA
  /\ an.cfg.weights.rolloverRate > 0
  /\ \E j \in DOMAIN an.raw \ {"rolloverRate"} :
       an.cfg.weights[j] > 0 /\ an.raw[j] > 0
  /\ an.out.score > 0

C19_Bounds ==
  an.called =>
    /\ 0 <= an.out.score
    /\ an.out.score <= One
    /\ \A k \in DOMAIN an.out.metrics :
         /\ 0 <= an.out.metrics[k]
         /\ an.out.metrics[k] <= One
         /\ an.raw[k] = NO_DATA => an.out.metrics[k] = 0

\* Two metrics are gated and reported as 0, under weights above 1, and the
\* composite is 1.
C19_Witness ==
  /\ an.called
  /\ \E k \in DOMAIN an.cfg.weights : an.cfg.weights[k] > One
  /\ an.raw.burstRegularity = NO_DATA
  /\ an.raw.rolloverRate = NO_DATA
  /\ an.out.metrics.burstRegularity = 0
  /\ an.out.metrics.rolloverRate = 0
  /\ an.out.score = One

\* ------------------------------------------- claims about the life cycle

\* C21: once a paste event has been delivered to the observer, pasteDetected
\* is true in every later state, through key and input events and through
\* stop() and start(), until clear() or destroy() resets it.
C21_PasteSticky == gh.life.pasted => obs.pasteDetected

\* A paste was delivered, the observer was stopped after it, and the flag is
\* still set.
C21_Witness ==
  /\ gh.life.pasted
  /\ gh.life.halted
  /\ ~obs.listening
  /\ obs.pasteDetected

\* C22: start() on a started instance and stop() on a stopped one change
\* nothing, in the observer and in the facade; the target holds each handler
\* once while listening and not at all otherwise, and every delivered event
\* ran its handler once.
C22_Idempotent ==
  /\ obs.attached = (IF obs.listening THEN 1 ELSE 0)
  /\ gh.life.noop
  /\ gh.life.once
  /\ obs.listening => originalStart(obs) = obs
  /\ ~obs.listening => originalStop(obs) = obs
  /\ cad.keystrokeListener => start(cad) = cad
  /\ ~cad.keystrokeListener => stop(cad) = cad

\* A started instance, where a further start() is a step that changes nothing,
\* on which one keystroke was captured, by one run of each handler.
C22_Witness ==
  /\ obs.listening
  /\ cad.keystrokeListener
  /\ obs.attached = 1
  /\ originalStart(obs) = obs
  /\ obs.total = 1
  /\ BufLength(obs.dwells) = 1
  /\ gh.life.once

\* C23: stop() leaves the captured data as it was, and while the instance is
\* stopped no handler is on the target, so that no keydown, keyup, paste or
\* input event changes a buffer or a counter.
C23_StopFreezes ==
  /\ gh.life.kept
  /\ gh.life.frozen
  /\ gh.life.halted => obs.attached = 0
  /\ gh.life.halted =>
       /\ Dispatch(obs, onKeyUp(obs, config, now),
                        onKeyUp(onKeyUp(obs, config, now), config, now)) = obs
       /\ Dispatch(obs, onPaste(obs), onPaste(onPaste(obs))) = obs
       /\ Dispatch(obs, onInput(obs, now), onInput(onInput(obs, now), now)) = obs
       /\ \A ke \in KeyEvents :
            Dispatch(obs, onKeyDown(obs, config, now, ke),
                        onKeyDown(onKeyDown(obs, config, now, ke), config, now, ke)) = obs

\* The instance was stopped with a keystroke captured, and has it still.
C23_Witness ==
  /\ gh.life.halted
  /\ ~obs.listening
  /\ obs.total > 0
  /\ BufLength(obs.dwells) > 0
  /\ gh.life.kept

\* C24: clear() puts every counter, buffer, flag and tracking variable back to
\* its value at construction and leaves the listeners as they were, so a
\* started instance goes on capturing; destroy() is stop() then clear(): the
\* state is empty and no handler is left on the target.
C24_ClearResets ==
  /\ gh.life.reset
  /\ gh.untouched =>
       /\ obs.total = 0
       /\ obs.corrections = 0
       /\ obs.rollovers = 0
       /\ obs.activeKeys = 0
       /\ obs.pendingFilteredUps = 0
       /\ ~obs.hadRepeat
       /\ obs.lastPressTime = 0
       /\ BufLength(obs.dwells) = 0
       /\ BufLength(obs.flights) = 0
  /\ gh.life.halted => obs.attached = 0
  /\ ~gh.life.halted =>
       /\ obs.attached = 1
       /\ LET ke == KeyEvent("a", FALSE, NoModifier, TRUE)
          IN  Dispatch(obs, onKeyDown(obs, config, now, ke),
                       onKeyDown(onKeyDown(obs, config, now, ke), config, now, ke)).total
                = obs.total + 1

\* clear() was called on a started instance that had captured a keystroke (the
\* store of the dwell buffer still holds its value): nothing is left of it,
\* the instance is still started, and a key is still down.
C24_Witness ==
  /\ gh.untouched
  /\ held # <<>>
  /\ ~gh.life.halted
  /\ obs.listening
  /\ obs.total = 0
  /\ obs.activeKeys = 0
  /\ BufLength(obs.dwells) = 0
  /\ obs.dwells.data # createObserver(config).dwells.data

\* C30: an accepted keydown that finds a key active counts one rollover and
\* pushes no flight; an accepted keydown that finds no key active counts none;
\* the count of active keys is never negative.
C30_Rollover ==
  /\ gh.life.roll
  /\ obs.activeKeys >= 0
  /\ obs.rollovers <= obs.total

\* Two keys were pressed one over the other and both released: one rollover
\* in two keystrokes, no flight between them, no key active.
C30_Witness ==
  /\ obs.total = 2
  /\ obs.rollovers = 1
  /\ obs.activeKeys = 0
  /\ BufLength(obs.flights) = 0
  /\ gh.life.roll

\* ------------------------------------------------ claims about the facade

\* C25: after reset() or destroy(), whatever came before, and as long as no
\* key event is captured, analyze() returns sampleCount 0, confident false
\* and score 0.5 (default weights), which is what it returns on an instance
\* just constructed.
C25_ResetNeutral ==
  /\ gh.untouched =>
       LET r == computeScore(cad, obs, cadConfig).lastResult
           f == computeScore(createCadence, createObserver(config), cadConfig).lastResult
       IN  /\ r.sampleCount = 0
           /\ ~r.confident
           /\ r.score = One \div 2
           /\ r.score = f.score
           /\ r.metrics = f.metrics
           /\ r.sampleCount = f.sampleCount
           /\ r.confident = f.confident
  /\ gh.untouched /\ hist.atCompute.n >= 0 =>
       /\ cad.lastResult.sampleCount = 0
       /\ ~cad.lastResult.confident
       /\ cad.lastResult.score = One \div 2

\* A keystroke was captured (the store of the dwell buffer holds its value),
\* reset() or destroy() was called, then analyze(): the result is neutral.
C25_Witness ==
  /\ gh.untouched
  /\ obs.dwells.data # createObserver(config).dwells.data
  /\ hist.atCompute.n = 0
  /\ cad.lastResult.sampleCount = 0
  /\ ~cad.lastResult.confident
  /\ cad.lastResult.score = One \div 2

\* C26: under manual scheduling a captured keystroke only marks the facade
\* dirty: no callback is ever requested from the host, so nothing is computed
\* but by analyze(), and onScore has been called once for every analyze() call
\* and never otherwise.
C26_Manual ==
  cadConfig.scheduling = "manual" =>
    /\ Pending(host) = {}
    /\ host = NoCallbacks
    /\ cad.idleHandle = 0
    /\ cad.timeoutHandle = 0
    /\ onKeystroke([c |-> cad, h |-> host], cadConfig, now)
         = [c |-> [cad EXCEPT !.dirty = TRUE], h |-> host]
    /\ cadConfig.onScore => cad.onScoreCalls = hist.analyzeCalls
    /\ hist.atCompute.n >= 0 => hist.analyzeCalls > 0

\* Manual scheduling with an onScore callback: a keystroke was captured,
\* analyze() was called once and onScore with it, and a keyup captured after
\* that has left the facade dirty with the same result.
C26_Witness ==
  /\ cadConfig.scheduling = "manual"
  /\ cadConfig.onScore
  /\ cad.dirty
  /\ hist.analyzeCalls = 1
  /\ cad.onScoreCalls = 1
  /\ cad.lastResult.sampleCount = 1
  /\ hist.unserved > 0

\* -------------------------------------------- claims about the ring buffer

\* The buffer b after the pushes of values, in order.
RECURSIVE PushAll(_, _, _)
PushAll(b, capacity, values) ==
  IF values = <<>> THEN b
  ELSE PushAll(BufPush(b, capacity, Head(values)), capacity, Tail(values))

\* C27: after clear(), and after every push that follows it, length, toArray()
\* and forEach() are those of a new buffer of the same capacity after the same
\* pushes.
C27_ClearAsNew ==
  rbCleared =>
    LET new == PushAll(createBuffer(rbCap), rbCap, rbPushed)
    IN  /\ BufLength(rb) = BufLength(new)
        /\ BufToArray(rb, rbCap) = BufToArray(new, rbCap)
        /\ BufForEach(rb, rbCap) = BufForEach(new, rbCap)

\* A buffer that was cleared and pushed to, not yet full again, whose store
\* still holds a value from before the clear where the new buffer has 0.
C27_Witness ==
  /\ rbCleared
  /\ rbPushed # <<>>
  /\ BufLength(rb) < rbCap
  /\ rb.data # PushAll(createBuffer(rbCap), rbCap, rbPushed).data
  /\ BufToArray(rb, rbCap) = rbPushed

\* ------------------------- claims about the analyzer of src/src/analyzer.ts

\* The metrics of an analyze of src/src/analyzer.ts in which correctionRatio
\* is ratio and every other metric is other.
WithCorrectionRatio(ratio, other) ==
  [k \in DOMAIN NoResult.metrics |-> IF k = "correctionRatio" THEN ratio ELSE other]

C31_Gates ==
  an.called =>
    /\ Len(an.args.dwells) < MIN_DWELL_SAMPLES => an.raw.dwellVariance = One \div 2
    /\ Len(an.args.flights) < MIN_FLIGHT_SAMPLES => an.raw.flightFit = One \div 2
    /\ Len(an.args.flights) < MIN_ENTROPY_SAMPLES => an.raw.timingEntropy = One \div 2
    /\ an.args.total < MIN_CORRECTION_SAMPLES => an.raw.correctionRatio = One \div 2
    /\ Len(an.args.flights) < MIN_BURST_SAMPLES => an.raw.burstRegularity = One \div 2
    /\ an.args.total < MIN_ROLLOVER_SAMPLES => an.raw.rolloverRate = One \div 2
    /\ \A k \in DOMAIN an.raw :
         an.raw[k] = One \div 2 => an.out.metrics[k] = One \div 2

\* Every metric below its gate with no corrections and no rollovers, and
\* burstRegularity below its gate with five flights and no burst gap while
\* flightFit is above its own.
C31_Witness ==
  /\ an.called
  /\ Len(an.args.dwells) = MIN_DWELL_SAMPLES - 1
  /\ Len(an.args.flights) = MIN_FLIGHT_SAMPLES
  /\ \A i \in 1..Len(an.args.flights) : an.args.flights[i] <= BURST_GAP_MS
  /\ an.args.total = MIN_CORRECTION_SAMPLES - 1
  /\ an.args.corrections = 0
  /\ an.args.rollovers = 0
  /\ an.raw.dwellVariance = One \div 2
  /\ an.raw.correctionRatio = One \div 2
  /\ an.raw.burstRegularity = One \div 2
  /\ an.raw.rolloverRate = One \div 2
  /\ an.raw.flightFit # One \div 2

\* C32: for a constant positive flight sequence of five samples or more,
\* detectSpoof finds logNormality 0, uniformity 0 and serial correlation 0,
\* so that genuineScore is the weight of anti-uniformity, 0.30; with fewer
\* than five samples both fit scores are the neutral 0.5.  (The flights of
\* this specification are all constant sequences.)
C32_Degenerate ==
  sp.called =>
    /\ Len(sp.flights) >= MIN_KS_SAMPLES =>
         /\ sp.out.logNormality = 0
         /\ sp.out.uniformity = 0
         /\ sp.out.serialCorrelation = 0
         /\ sp.out.genuineScore = SPOOF_WEIGHT_UNIFORMITY
    /\ Len(sp.flights) < MIN_KS_SAMPLES =>
         /\ sp.out.logNormality = One \div 2
         /\ sp.out.uniformity = One \div 2

\* C33: with five flights or more, flightFit is genuineScore * 0.15 when
\* strictly more than half of the flights are below 60 ms, and genuineScore
\* itself otherwise; exactly half below 60 ms gives no penalty.
C33_Penalty ==
  (an.called /\ Len(an.args.flights) >= MIN_FLIGHT_SAMPLES) =>
    LET genuineScore == detectSpoof(an.args.lib.fit)
        subFloor == {i \in 1..Len(an.args.flights) : an.args.flights[i] < IKI_FLOOR_MS}
    IN  an.raw.flightFit =
          IF 2 * Cardinality(subFloor) > Len(an.args.flights)
            THEN (genuineScore * IKI_FLOOR_PENALTY) \div One
          ELSE genuineScore

C33_Witness ==
  /\ an.called
  /\ Len(an.args.flights) >= MIN_FLIGHT_SAMPLES
  /\ 2 * Cardinality({i \in 1..Len(an.args.flights) : an.args.flights[i] < IKI_FLOOR_MS})
       = Len(an.args.flights)
  /\ an.raw.flightFit = detectSpoof(an.args.lib.fit)
  /\ an.raw.flightFit > 0

\* C34: on a started observer, whatever came before, an accepted keydown at
\* t > 0 followed at once by the keyup of that key at t' pushes exactly one
\* dwell sample, t' - t.
C34_AlwaysMeasured ==
  [][ ( /\ gh.rep.phase = "pressed"
        /\ gh.rep.t0 > 0
        /\ obs.attached = 1
        /\ held # <<>>
        /\ held[Len(held)] = "accepted"
        /\ KeyUpHeld(Len(held)) ) =>
        obs'.dwells = BufPush(obs.dwells, config.windowSize, now - gh.rep.t0) ]_vars

\* C35: the dwell samples pushed since the last clear never outnumber total,
\* the accepted keydowns since the last clear (the dwell buffer holds no more
\* samples than were pushed), and a keyup with no matching accepted keydown
\* pushes no dwell sample.
C35_DwellsCounted ==
  (obs.attached <= 1 /\ gh.life.once) => BufLength(obs.dwells) <= obs.total

\* C39: in every state of the observer rollovers <= total, and rollovers <
\* total whenever total > 0: the rollover ratio handed to the analyzer lies
\* in [0, 1).
C39_RolloversBounded ==
  /\ obs.rollovers <= obs.total
  /\ obs.total > 0 => obs.rollovers < obs.total

\* Two keys down at once, then a third keydown over the second: two of the
\* three keystrokes are rollovers.
C39_Witness ==
  /\ obs.total = 3
  /\ obs.rollovers = 2
  /\ obs.activeKeys >= 2

\* C40: with recordEvents enabled, a keyup that pushes a dwell sample d and
\* appends an event e (of a key pressed at a positive time) has
\* e.releaseTime - e.pressTime = d, also for overlapping keystrokes released
\* in any order.
C40_EventsAgree ==
  [][ ( /\ config.recordEvents
        /\ obs.attached = 1
        /\ obs'.dwells # obs.dwells
        /\ Len(obs'.events) = Len(obs.events) + 1 ) =>
        LET e == obs'.events[Len(obs'.events)]
            d == obs'.dwells.data[obs.dwells.head]
        IN  e.pressTime > 0 => e.releaseTime - e.pressTime = d ]_vars

\* C36: whenever a deferred (idle or timeout) callback runs computeScore, the
\* dirty flag is true: a keyup was captured since the latest computed result,
\* so that an analyze() call is never followed by a redundant deferred
\* computation.
C36_FreshData ==
  [][ ( \/ \E handle \in host.idle : FireIdle(handle)
        \/ \E tm \in host.timers : FireTimeout(tm) ) => cad.dirty ]_vars

C38_NeverConfident ==
  cadConfig.minSamples > config.windowSize =>
    /\ BufLength(obs.dwells) <= config.windowSize
    /\ ~cad.lastResult.confident
    /\ hist.atCompute.n >= 0 =>
         /\ cad.lastResult.sampleCount < cadConfig.minSamples
         /\ cad.lastResult.signals.insufficientData

\* A result computed after more dwells than the window holds: the buffer is
\* full, and as many keystrokes as minSamples asks for were typed.
C38_Witness ==
  /\ cadConfig.minSamples > config.windowSize
  /\ hist.atCompute.n = config.windowSize
  /\ Len(gh.typing.dwells) >= cadConfig.minSamples
  /\ cad.lastResult.sampleCount = config.windowSize

====
